---------------------------- MODULE Spec2Model ----------------------------
(***************************************************************************)
(* Model of the Docker tar ingestion pipeline of the buco backend          *)
(* (src/unnamed/part_007): the POST /api/upload-docker-tar handler,        *)
(* validateDockerTarFile, processDockerTarFile, loadDockerImagesFromTar    *)
(* and pushImagesToLocalRegistry.                                          *)
(*                                                                         *)
(* Strings the code takes apart (image references, command output) are     *)
(* sequences of tokens: the separators "/", ":", " " and "\n" are tokens   *)
(* of their own, every other token is an atom without a separator in it.   *)
(* Messages the code builds by interpolation are the concatenation of      *)
(* their parts.                                                            *)
(***************************************************************************)
EXTENDS Integers, Sequences, FiniteSets, TLC

VARIABLES
    pc,          \* position of the request in handler / pipeline code
    file,        \* req.file: NoFile, or the attributes of the staged tar
    fileExists,  \* whether the staged path exists on disk
    ops,         \* every subprocess / filesystem call made so far, in order
    valResult,   \* validationResult of the handler
    results,     \* `results` of processDockerTarFile
    loadRes,     \* `results` of loadDockerImagesFromTar
    idQueue,     \* imageIdMatches the loader still has to inspect
    loadResult,  \* value returned by loadDockerImagesFromTar
    imageNames,  \* argument of pushImagesToLocalRegistry
    idx,         \* position of the for-of loop over imageNames
    pushRes,     \* `results` of pushImagesToLocalRegistry
    pushResult,  \* value returned by pushImagesToLocalRegistry
    thrown,      \* message of the error in flight / caught by the handler
    response,    \* HTTP response sent, or NoResponse
    now,         \* Date.now(), in milliseconds
    runs,        \* concurrent uploads: phase, staged path, what each read and removed
    disk,        \* the upload directory: the staged paths and who wrote each
    buildInProgress,  \* DockerBuildManager.buildInProgress
    calls,       \* the calls of buildAndPushImages: where each one is
    caller,      \* who calls DockerBuilder.buildAndPushAll: /api/upload or a script
    versions,    \* argument of buildAndPushAll
    bpc,         \* position in the /api/upload handler and in buildAndPushAll
    step,        \* step of buildAndPushBuco / buildAndPushSubco at work
    blog,        \* every step the builder has run, with its result
    built,       \* `results` and `errors` of buildAndPushAll
    buildReturn, \* value returned by buildAndPushAll
    published,   \* topics published to the MQTT broker
    uresponse,   \* response of /api/upload, or NoResponse
    pushers,     \* two pushImagesToLocalRegistry runs at work at the same time
    localRefs    \* the re-tagged references the engine holds

vars == <<pc, file, fileExists, ops, valResult, results, loadRes, idQueue,
          loadResult, imageNames, idx, pushRes, pushResult, thrown, response,
          now, runs, disk, buildInProgress, calls,
          caller, versions, bpc, step, blog, built, buildReturn, published,
          uresponse, pushers, localRefs>>

\* the request followed step by step, and the upload directory shared by all
requestVars == <<pc, file, fileExists, ops, valResult, results, loadRes, idQueue,
                 loadResult, imageNames, idx, pushRes, pushResult, thrown, response>>

stagingVars == <<now, runs, disk>>

\* the one DockerBuildManager of the build server
managerVars == <<buildInProgress, calls>>

\* the DockerBuilder of the build server and its /api/upload handler
builderVars == <<caller, versions, bpc, step, blog, built, buildReturn, published,
                 uresponse>>

\* the pushers of two requests, and the engine they share
raceVars == <<pushers, localRefs>>

\* what the steps of each part of the program leave alone
besideRequest == <<stagingVars, managerVars, builderVars, raceVars>>
besideStaging == <<requestVars, managerVars, builderVars, raceVars>>
besideManager == <<requestVars, stagingVars, builderVars, raceVars>>
besideBuilder == <<requestVars, stagingVars, managerVars, raceVars>>
besideRace == <<requestVars, stagingVars, managerVars, builderVars>>

-----------------------------------------------------------------------------
(* Bounds of the model *)

MaxLines == 2   \* lines of `docker load` stdout
MaxTags == 1    \* repo tags printed by one `docker inspect`
MaxListed == 1  \* lines printed by `docker images`
MaxUploads == 2 \* uploads in progress at the same time
MaxClock == 1   \* milliseconds that pass while they are
MaxCallers == 3 \* callers of DockerBuildManager.buildAndPushImages
MaxRecent == 6  \* lines printed by `docker images` on a host that holds images

(* Program constants *)

MaxTarKiB == 5242880   \* 5 * 1024 * 1024 * 1024 bytes, in KiB
RecentLimit == 5       \* recentImages.slice(0, 5)

-----------------------------------------------------------------------------
(* String helpers over token sequences *)

Last(s) == s[Len(s)]

Includes(s, tok) == \E i \in 1..Len(s) : s[i] = tok

IndexOf(s, tok) ==
    IF Includes(s, tok)
    THEN CHOOSE i \in 1..Len(s) : s[i] = tok /\ \A j \in 1..(i - 1) : s[j] # tok
    ELSE 0

\* String.prototype.split(sep): always at least one piece
RECURSIVE Split(_, _)
Split(s, sep) ==
    IF ~Includes(s, sep)
    THEN <<s>>
    ELSE LET i == IndexOf(s, sep)
         IN  <<SubSeq(s, 1, i - 1)>> \o Split(SubSeq(s, i + 1, Len(s)), sep)

IsSpace(tok) == tok \in {" ", "\n"}

\* String.prototype.trim()
RECURSIVE TrimLeft(_)
TrimLeft(s) ==
    IF s # <<>> /\ IsSpace(s[1]) THEN TrimLeft(Tail(s)) ELSE s

RECURSIVE TrimRight(_)
TrimRight(s) ==
    IF s # <<>> /\ IsSpace(s[Len(s)])
    THEN TrimRight(SubSeq(s, 1, Len(s) - 1))
    ELSE s

Trim(s) == TrimRight(TrimLeft(s))

\* Array.prototype.slice(0, n)
Slice(s, n) == SubSeq(s, 1, IF Len(s) < n THEN Len(s) ELSE n)

RECURSIVE Flatten(_)
Flatten(ss) == IF ss = <<>> THEN <<>> ELSE Head(ss) \o Flatten(Tail(ss))

\* all sequences over S of length at most n
RECURSIVE SeqsUpTo(_, _)
SeqsUpTo(S, n) ==
    IF n = 0 THEN {<<>>}
    ELSE LET shorter == SeqsUpTo(S, n - 1)
         IN  shorter \cup {Append(s, x) : s \in shorter, x \in S}

-----------------------------------------------------------------------------
(* Inputs: what the client uploads and what the tools print *)

NoFile == [staged |-> FALSE]
NoResponse == [status |-> 0]
NoError == <<>>
Registry == <<"100.103.254.213", ":", "5001">>

ImgApp == <<"myapp", ":", "1.2.0">>
ImgWeb == <<"reg.local", ":", "5000", "/", "team", "/", "web">>
ImageRefs == {ImgApp, ImgWeb}
NoneTag == <<"<none>">>
NoneRef == <<"<none>", ":", "<none>">>
ImageIds == {<<"sha256", ":", "aa">>}

\* what multer can have staged: a regular file of at most the upload limit
StagedFiles ==
    [staged : {TRUE}, isFile : {TRUE}, sizeKiB : {0, 1},
     tarOk : BOOLEAN, hasJson : {TRUE}]

\* what validateDockerTarFile can be handed: any path, of any kind, size (in
\* KiB, rounded up), content and extension
AnyFiles ==
    [staged : {TRUE}, isFile : BOOLEAN, sizeKiB : {0, 1, MaxTarKiB, MaxTarKiB + 1},
     tarOk : BOOLEAN, hasJson : BOOLEAN, tarExt : BOOLEAN]

LoadedImageLine(ref) == <<"Loaded image: ">> \o ref \o <<"\n">>
LoadedIdLine(id) == <<"Loaded image ID: ">> \o id \o <<"\n">>
LayerLine == <<"Loading layer", "\n">>

StdoutLines ==
    {LoadedImageLine(r) : r \in ImageRefs}
        \cup {LoadedIdLine(i) : i \in ImageIds} \cup {LayerLine}

LoadStdouts == {Flatten(ls) : ls \in SeqsUpTo(StdoutLines, MaxLines)}

LoadStderrs == {<<>>, <<"notice">>, <<"Error", " processing layer">>}
PushStderrs == {<<>>, <<"notice">>, <<"error", " retrying">>}

\* --format='{{range .RepoTags}}{{.}} {{end}}': every tag is followed by " "
InspectOutputs ==
    {Flatten([i \in 1..Len(ts) |-> ts[i] \o <<" ">>]) :
        ts \in SeqsUpTo({ImgWeb, NoneTag}, MaxTags)}

\* --format "{{.Repository}}:{{.Tag}}": one image per line
ListingOutputsUpTo(n) ==
    {Flatten([i \in 1..Len(ls) |-> ls[i] \o <<"\n">>]) :
        ls \in SeqsUpTo({ImgApp, NoneRef}, n)}

ExecError(cmd) == <<"Command failed: ", cmd>>
TimeoutError(cmd) == <<"Command failed: ", cmd, " (killed: timeout)">>

\* One call, as kept in ops: the command, the function that made it, what it
\* was applied to, whether it succeeded, the stdout it printed, whether its
\* stderr spoke of an error and, for the pusher's calls, the position in
\* imageNames and the tag variant at work.
OpFull(cmd, by, target, ok, out, image, variant) ==
    [cmd |-> cmd, by |-> by, target |-> target, ok |-> ok, out |-> out,
     image |-> image, variant |-> variant, alarm |-> FALSE]

\* the words the code looks for in the stderr of a call that exited with 0
StderrAlarm(stderr) ==
    \E word \in {"Error", "error", "failed"} : Includes(stderr, word)

WithStderr(op, stderr) == [op EXCEPT !.alarm = StderrAlarm(stderr)]

Op(cmd, by, target, ok) == OpFull(cmd, by, target, ok, <<>>, 0, "none")

OpOut(cmd, by, target, ok, out) == OpFull(cmd, by, target, ok, out, 0, "none")

PushOp(cmd, target, ok, image, variant) ==
    OpFull(cmd, "pusher", target, ok, <<>>, image, variant)

-----------------------------------------------------------------------------
(* validateDockerTarFile *)

Invalid(msg) == [isValid |-> FALSE, error |-> msg]

\* validateDockerTarFile failing a listing without a .json entry
validateRequiringManifest(exists, f) ==
    IF ~exists
    THEN Invalid(<<"Validation failed: ", "ENOENT: no such file or directory">>)
    ELSE IF ~f.isFile
    THEN Invalid(<<"Uploaded file is not a valid file">>)
    ELSE IF f.sizeKiB = 0
    THEN Invalid(<<"Tar file is empty">>)
    ELSE IF f.sizeKiB > MaxTarKiB
    THEN Invalid(<<"Tar file is too large (max 5GB)">>)
    ELSE IF ~f.tarOk \/ ~f.hasJson
    THEN Invalid(<<"File is not a valid tar archive">>)
    ELSE [isValid |-> TRUE, error |-> NoError]

\* lines 373-416. stat rejects on a missing path and the outer catch answers;
\* a listing without manifest.json or any .json entry is only logged (line
\* 400), so f.hasJson decides nothing.
validateDockerTarFile(exists, f) ==
    IF ~exists
    THEN Invalid(<<"Validation failed: ", "ENOENT: no such file or directory">>)
    ELSE IF ~f.isFile
    THEN Invalid(<<"Uploaded file is not a valid file">>)
    ELSE IF f.sizeKiB = 0
    THEN Invalid(<<"Tar file is empty">>)
    ELSE IF f.sizeKiB > MaxTarKiB
    THEN Invalid(<<"Tar file is too large (max 5GB)">>)
    ELSE IF ~f.tarOk
    THEN Invalid(<<"File is not a valid tar archive">>)
    ELSE [isValid |-> TRUE, error |-> NoError]

-----------------------------------------------------------------------------
(* loadDockerImagesFromTar: parsing of the tools' output *)

EmptyLoad == [images |-> <<>>, errors |-> <<>>, warnings |-> <<>>]

\* stdout.match(/<prefix>(.+)/g): per line, the text from the prefix on
PrefixMatches(stdout, prefix) ==
    SelectSeq(Split(stdout, "\n"),
              LAMBDA line : Includes(line, prefix)
                            /\ IndexOf(line, prefix) < Len(line))

\* match.replace(prefix, '').trim()
MatchPayload(line, prefix) ==
    Trim(SubSeq(line, IndexOf(line, prefix) + 1, Len(line)))

LoadedImages(stdout) ==
    LET ms == PrefixMatches(stdout, "Loaded image: ")
    IN  [i \in 1..Len(ms) |-> MatchPayload(ms[i], "Loaded image: ")]

LoadedImageIds(stdout) ==
    LET ms == PrefixMatches(stdout, "Loaded image ID: ")
    IN  [i \in 1..Len(ms) |-> MatchPayload(ms[i], "Loaded image ID: ")]

InspectTags(out) ==
    SelectSeq(Split(Trim(out), " "), LAMBDA tag : tag # <<>> /\ tag # NoneTag)

RecentImages(out) ==
    SelectSeq(Split(Trim(out), "\n"),
              LAMBDA img : img # <<>> /\ img # NoneRef /\ Trim(img) # <<>>)

LoadStderrWarning(stderr) ==
    IF stderr # <<>> /\ (Includes(stderr, "Error") \/ Includes(stderr, "failed"))
    THEN << <<"Docker load warning: ">> \o stderr >>
    ELSE <<>>

NoImagesError == <<"No Docker images were successfully loaded from the tar file">>

\* LoadFinish returning an empty result as it is
LoadFinishWithoutError(r) == r

\* lines 572-578: the error of an empty result, then return
LoadFinish(r) ==
    IF Len(r.images) = 0
    THEN [r EXCEPT !.errors = Append(@, NoImagesError)]
    ELSE r

\* LoadCatch returning an empty errors list
LoadCatchWithoutError(msg) == [images |-> <<>>, errors |-> <<>>, warnings |-> <<>>]

\* lines 580-587: the catch block's result
LoadCatch(msg) ==
    [images |-> <<>>,
     errors |-> << <<"Failed to load images from tar: ">> \o msg >>,
     warnings |-> <<>>]

InspectFailed(r, id) ==
    [r EXCEPT !.warnings =
        Append(@, <<"Loaded image with ID ">> \o id
                      \o <<" but couldn't determine name">>)]

InspectOk(r, out) == [r EXCEPT !.images = @ \o InspectTags(out)]

ListFailed(r) ==
    [r EXCEPT !.warnings = Append(@, <<"Could not determine loaded images">>)]

RecentWarning ==
    <<"Could not parse loaded images from docker load output, using recently available images">>

\* ListOk recording the warning but not the images
ListOkWarningOnly(r, out) ==
    IF Len(RecentImages(out)) > 0
    THEN [r EXCEPT !.warnings = Append(@, RecentWarning)]
    ELSE r

\* ListOk taking every image of the listing
ListOkWithoutLimit(r, out) ==
    LET recent == RecentImages(out)
    IN  IF Len(recent) > 0
        THEN [r EXCEPT !.warnings = Append(@, RecentWarning),
                       !.images = @ \o recent]
        ELSE r

ListOk(r, out) ==
    LET recent == RecentImages(out)
    IN  IF Len(recent) > 0
        THEN [r EXCEPT !.warnings = Append(@, RecentWarning),
                       !.images = @ \o Slice(recent, RecentLimit)]
        ELSE r

-----------------------------------------------------------------------------
(* pushImagesToLocalRegistry: names and outcomes *)

EmptyPush == [pushedImages |-> <<>>, errors |-> <<>>, warnings |-> <<>>]

\* ImageBaseName keeping the registry prefix
ImageBaseNameWithRegistry(name) == name

ImageBaseName(name) ==
    IF Includes(name, "/") THEN Last(Split(name, "/")) ELSE name

RepoName(name) == Split(ImageBaseName(name), ":")[1]

\* OriginalTag forgetting the tag of the reference
OriginalTagAlwaysLatest(name) == <<"latest">>

OriginalTag(name) ==
    LET parts == Split(ImageBaseName(name), ":")
    IN  IF Len(parts) >= 2 THEN parts[2] ELSE <<"latest">>

OriginalLocalImageName(name) ==
    Registry \o <<"/">> \o RepoName(name) \o <<":">> \o OriginalTag(name)

LatestLocalImageName(name) ==
    Registry \o <<"/">> \o RepoName(name) \o <<":">> \o <<"latest">>

SuccessOutcomes(name) ==
    << [originalName |-> name, localName |-> OriginalLocalImageName(name),
        registryUrl |-> Registry, tag |-> OriginalTag(name),
        status |-> "success", type |-> "original"],
       [originalName |-> name, localName |-> LatestLocalImageName(name),
        registryUrl |-> Registry, tag |-> <<"latest">>,
        status |-> "success", type |-> "latest"] >>

\* FailedOutcomes recording the versioned target only
FailedOutcomesOriginalOnly(name, msg) ==
    << [originalName |-> name, localName |-> OriginalLocalImageName(name),
        registryUrl |-> Registry, tag |-> OriginalTag(name),
        status |-> "failed", type |-> "original", error |-> msg] >>

FailedOutcomes(name, msg) ==
    << [originalName |-> name, localName |-> OriginalLocalImageName(name),
        registryUrl |-> Registry, tag |-> OriginalTag(name),
        status |-> "failed", type |-> "original", error |-> msg],
       [originalName |-> name, localName |-> LatestLocalImageName(name),
        registryUrl |-> Registry, tag |-> <<"latest">>,
        status |-> "failed", type |-> "latest", error |-> msg] >>

\* lines 703-731: the per-image catch block
PushCatch(r, name, msg) ==
    [r EXCEPT !.errors = Append(@, <<"Failed to push ">> \o name \o <<": ">> \o msg),
              !.pushedImages = @ \o FailedOutcomes(name, msg)]

PushStderrWarning(r, localName, stderr) ==
    IF stderr # <<>> /\ (Includes(stderr, "error") \/ Includes(stderr, "failed"))
    THEN [r EXCEPT !.warnings =
             Append(@, <<"Push warning for ">> \o localName \o <<": ">> \o stderr)]
    ELSE r

\* ProbeWarning recording a failed probe among the errors
ProbeRecordedAsError(r, outcome) ==
    IF outcome = "ok"
    THEN r
    ELSE [r EXCEPT !.errors = Append(@,
             <<"Could not verify registry connectivity: ">> \o ExecError("curl"))]

\* lines 608-615: curl -f ... || echo "Registry not accessible via HTTP"
ProbeWarning(r, outcome) ==
    IF outcome = "unreachable"
    THEN [r EXCEPT !.warnings = Append(@,
             <<"Local registry at ">> \o Registry
                \o <<" may not be accessible. Proceeding with push attempts anyway.">>)]
    ELSE IF outcome = "throw"
    THEN [r EXCEPT !.warnings = Append(@,
             <<"Could not verify registry connectivity: ">> \o ExecError("curl"))]
    ELSE r

-----------------------------------------------------------------------------
(* State after construction: no request yet *)

Uploads == 1..MaxUploads

NoPath == <<>>

NewRun == [phase |-> "new", path |-> NoPath, loaded |-> 0, unlinked |-> 0]

StagingInit ==
    /\ now = 0
    /\ runs = [r \in Uploads |-> NewRun]
    /\ disk = {}

\* `versions` as a script may pass it: any field may be missing, or the whole
\* argument (given = FALSE)
NoVersions ==
    [given |-> FALSE, bucoVersion |-> "", fullPackageVersion |-> "", subcoVersion |-> ""]

AnyVersions ==
    [given : {TRUE}, bucoVersion : {"", "1.3.0"}, fullPackageVersion : {"", "2.0.1"},
     subcoVersion : {"", "1.1.1"}] \cup {NoVersions}

\* part_005 lines 380-404: updateResult.newVersions is versionData, all of
\* whose fields hold a version
VersionData ==
    [given : {TRUE}, bucoVersion : {"1.2.4", "1.3.0"}, fullPackageVersion : {"2.0.1"},
     subcoVersion : {"1.1.1"}]

NothingBuilt == [results |-> <<>>, errors |-> <<>>]

NoReturn == [returned |-> FALSE]

BuilderInit ==
    /\ caller = "none"
    /\ versions = NoVersions
    /\ bpc = "idle"
    /\ step = 1
    /\ blog = <<>>
    /\ built = NothingBuilt
    /\ buildReturn = NoReturn
    /\ published = <<>>
    /\ uresponse = NoResponse

\* two requests whose pushers run at the same time
Racers == {"A", "B"}

\* images of one repository, as two uploads bring them
RepoImages == {ImgApp, <<"myapp", ":", "1.3.0">>}

NoPusher == [at |-> "idle", image |-> <<>>, pushedImages |-> <<>>, errors |-> <<>>]

RaceInit ==
    /\ pushers = [r \in Racers |-> NoPusher]
    /\ localRefs = {}

Callers == 1..MaxCallers

NoCall == [phase |-> "none", spawned |-> FALSE, outcome |-> "none", error |-> <<>>]

\* dockerBuildManager.js lines 6-9: the constructor, and nobody calling yet
ManagerInit ==
    /\ buildInProgress = FALSE
    /\ calls = [c \in Callers |-> NoCall]

EmptyResults ==
    [loadedImages |-> <<>>, pushedImages |-> <<>>, errors |-> <<>>, warnings |-> <<>>]

Init ==
    /\ pc = "idle"
    /\ file = NoFile
    /\ fileExists = FALSE
    /\ ops = <<>>
    /\ valResult = [isValid |-> FALSE, error |-> NoError]
    /\ results = EmptyResults
    /\ loadRes = EmptyLoad
    /\ idQueue = <<>>
    /\ loadResult = EmptyLoad
    /\ imageNames = <<>>
    /\ idx = 1
    /\ pushRes = EmptyPush
    /\ pushResult = EmptyPush
    /\ thrown = NoError
    /\ response = NoResponse
    /\ StagingInit
    /\ ManagerInit
    /\ BuilderInit
    /\ RaceInit

loaderVars == <<loadRes, idQueue, loadResult>>
pusherVars == <<imageNames, idx, pushRes, pushResult>>

\* fs.unlink succeeds only on a path that exists, and may fail on one that does
UnlinkOutcomes == IF fileExists THEN BOOLEAN ELSE {FALSE}

UnlinkError == <<"EPERM/ENOENT: unlink failed">>

-----------------------------------------------------------------------------
(* The route handler of POST /api/upload-docker-tar *)

\* multer has run: a tar is staged, or the request carried no file
Upload ==
    /\ pc = "idle"
    /\ \E f \in StagedFiles \cup {NoFile} :
          /\ file' = f
          /\ fileExists' = f.staged
          /\ IF f.staged
             THEN pc' = "validate" /\ UNCHANGED response
             ELSE /\ pc' = "responded"
                  /\ response' = [status |-> 400, error |-> <<"No tar file uploaded">>]
    /\ UNCHANGED <<ops, valResult, results, thrown>>
    /\ UNCHANGED <<loaderVars, pusherVars>>
    /\ UNCHANGED besideRequest

\* HandlerValidate handing an invalid file to processDockerTarFile as well
HandlerValidateIgnoresResult ==
    /\ pc = "validate"
    /\ valResult' = validateDockerTarFile(fileExists, file)
    /\ pc' = "proc_version"
    /\ UNCHANGED <<file, fileExists, ops, results, thrown, response>>
    /\ UNCHANGED <<loaderVars, pusherVars>>
    /\ UNCHANGED besideRequest

\* lines 173-174
HandlerValidate ==
    /\ pc = "validate"
    /\ valResult' = validateDockerTarFile(fileExists, file)
    /\ pc' = IF valResult'.isValid THEN "proc_version" ELSE "invalid_unlink"
    /\ UNCHANGED <<file, fileExists, ops, results, thrown, response>>
    /\ UNCHANGED <<loaderVars, pusherVars>>
    /\ UNCHANGED besideRequest

\* lines 175-180: unlink, then 400; an unlink that throws lands in the catch
HandlerRejectInvalid ==
    /\ pc = "invalid_unlink"
    /\ \E ok \in UnlinkOutcomes :
          /\ ops' = Append(ops, Op("unlink", "handler", <<"req.file.path">>, ok))
          /\ IF ok
             THEN /\ fileExists' = FALSE
                  /\ response' = [status |-> 400,
                                  error |-> <<"Invalid Docker tar file">>,
                                  details |-> valResult.error]
                  /\ pc' = "responded"
                  /\ UNCHANGED thrown
             ELSE /\ thrown' = UnlinkError
                  /\ pc' = "handler_catch"
                  /\ UNCHANGED <<fileExists, response>>
    /\ UNCHANGED <<file, valResult, results>>
    /\ UNCHANGED <<loaderVars, pusherVars>>
    /\ UNCHANGED besideRequest

\* HandlerCatch with the cleanup of lines 196-202 left out
HandlerCatchWithoutCleanup ==
    /\ pc \in {"handler_catch", "proc_thrown"}
    /\ response' = [status |-> 500,
                    error |-> <<"Failed to process Docker tar upload">>,
                    details |-> thrown]
    /\ pc' = "responded"
    /\ UNCHANGED <<file, fileExists, ops, valResult, results, thrown>>
    /\ UNCHANGED <<loaderVars, pusherVars>>
    /\ UNCHANGED besideRequest

\* lines 192-208: best-effort unlink, then 500
HandlerCatch ==
    /\ pc \in {"handler_catch", "proc_thrown"}
    /\ \E ok \in UnlinkOutcomes :
          /\ ops' = Append(ops, Op("unlink", "handler", <<"req.file.path">>, ok))
          /\ fileExists' = IF ok THEN FALSE ELSE fileExists
    /\ response' = [status |-> 500,
                    error |-> <<"Failed to process Docker tar upload">>,
                    details |-> thrown]
    /\ pc' = "responded"
    /\ UNCHANGED <<file, valResult, results, thrown>>
    /\ UNCHANGED <<loaderVars, pusherVars>>
    /\ UNCHANGED besideRequest

\* lines 186-190
HandlerRespond ==
    /\ pc = "proc_returned"
    /\ response' = [status |-> 200,
                    message |-> <<"Docker tar file uploaded and images processed successfully">>,
                    dockerResult |-> results]
    /\ pc' = "responded"
    /\ UNCHANGED <<file, fileExists, ops, valResult, results, thrown>>
    /\ UNCHANGED <<loaderVars, pusherVars>>
    /\ UNCHANGED besideRequest

-----------------------------------------------------------------------------
(* processDockerTarFile *)

DaemonError ==
    <<"Docker tar processing failed: ",
      "Docker daemon is not accessible. Ensure Docker is running and accessible from this container.">>

\* ProcDockerVersion going on to the loader although the engine check failed
ProcDockerVersionNotFatal ==
    /\ pc = "proc_version"
    /\ results' = EmptyResults
    /\ \E ok \in BOOLEAN :
          ops' = Append(ops, Op("docker version", "processDockerTarFile", <<>>, ok))
    /\ pc' = "load_exists"
    /\ loadRes' = EmptyLoad
    /\ UNCHANGED <<file, fileExists, valResult, thrown, response, idQueue, loadResult>>
    /\ UNCHANGED pusherVars
    /\ UNCHANGED besideRequest

\* lines 424-436 and, for the throw, 483-486
ProcDockerVersion ==
    /\ pc = "proc_version"
    /\ results' = EmptyResults
    /\ \E ok \in BOOLEAN :
          /\ ops' = Append(ops, Op("docker version", "processDockerTarFile", <<>>, ok))
          /\ IF ok
             THEN /\ pc' = "load_exists"
                  /\ loadRes' = EmptyLoad
                  /\ UNCHANGED thrown
             ELSE /\ pc' = "proc_thrown"
                  /\ thrown' = DaemonError
                  /\ UNCHANGED loadRes
    /\ UNCHANGED <<file, fileExists, valResult, response, idQueue, loadResult>>
    /\ UNCHANGED pusherVars
    /\ UNCHANGED besideRequest

NoImagesWarning == <<"No images were loaded from the tar file">>

CleanupWarning == <<"Failed to cleanup tar file: ">> \o UnlinkError

\* lines 440-448
MergeLoad(r, lr) ==
    [r EXCEPT !.loadedImages = lr.images,
              !.errors = @ \o lr.errors,
              !.warnings = @ \o lr.warnings]

\* MergePush putting the pusher's lists in the place of those gathered so far
MergePushReplacing(r, pr) ==
    [r EXCEPT !.pushedImages = pr.pushedImages,
              !.errors = pr.errors,
              !.warnings = pr.warnings]

\* lines 454-462
MergePush(r, pr) ==
    [r EXCEPT !.pushedImages = pr.pushedImages,
              !.errors = @ \o pr.errors,
              !.warnings = @ \o pr.warnings]

\* ProcAfterLoad without the test of line 451: the pusher is always called
ProcAfterLoadAlwaysPushes ==
    /\ pc = "load_returned"
    /\ results' = MergeLoad(results, loadResult)
    /\ imageNames' = loadResult.images
    /\ idx' = 1
    /\ pushRes' = EmptyPush
    /\ pc' = "push_probe"
    /\ UNCHANGED <<file, fileExists, ops, valResult, thrown, response, pushResult>>
    /\ UNCHANGED loaderVars
    /\ UNCHANGED besideRequest

\* lines 439-469: the loader has returned; push, or skip the push stage
ProcAfterLoad ==
    /\ pc = "load_returned"
    /\ IF Len(loadResult.images) > 0
       THEN /\ results' = MergeLoad(results, loadResult)
            /\ imageNames' = loadResult.images
            /\ idx' = 1
            /\ pushRes' = EmptyPush
            /\ pc' = "push_probe"
       ELSE /\ results' = [MergeLoad(results, loadResult) EXCEPT !.warnings =
                              Append(@, NoImagesWarning)]
            /\ pc' = "proc_unlink"
            /\ UNCHANGED <<imageNames, idx, pushRes>>
    /\ UNCHANGED <<file, fileExists, ops, valResult, thrown, response, pushResult>>
    /\ UNCHANGED loaderVars
    /\ UNCHANGED besideRequest

\* lines 453-462: the pusher has returned
ProcAfterPush ==
    /\ pc = "push_returned"
    /\ results' = MergePush(results, pushResult)
    /\ pc' = "proc_unlink"
    /\ UNCHANGED <<file, fileExists, ops, valResult, thrown, response>>
    /\ UNCHANGED <<loaderVars, pusherVars>>
    /\ UNCHANGED besideRequest

\* ProcUnlink with the unlink of lines 472-478 left out
ProcUnlinkSkipped ==
    /\ pc = "proc_unlink"
    /\ pc' = "proc_returned"
    /\ UNCHANGED <<file, fileExists, ops, valResult, results, thrown, response>>
    /\ UNCHANGED <<loaderVars, pusherVars>>
    /\ UNCHANGED besideRequest

\* ProcUnlink letting a failed unlink escape as an exception
ProcUnlinkThrows ==
    /\ pc = "proc_unlink"
    /\ \E ok \in UnlinkOutcomes :
          /\ ops' = Append(ops, Op("unlink", "processDockerTarFile", <<"tarFilePath">>, ok))
          /\ IF ok
             THEN /\ fileExists' = FALSE
                  /\ pc' = "proc_returned"
                  /\ UNCHANGED thrown
             ELSE /\ thrown' = <<"Docker tar processing failed: ">> \o UnlinkError
                  /\ pc' = "proc_thrown"
                  /\ UNCHANGED fileExists
    /\ UNCHANGED <<file, valResult, results, response>>
    /\ UNCHANGED <<loaderVars, pusherVars>>
    /\ UNCHANGED besideRequest

\* lines 471-481
ProcUnlink ==
    /\ pc = "proc_unlink"
    /\ \E ok \in UnlinkOutcomes :
          /\ ops' = Append(ops, Op("unlink", "processDockerTarFile", <<"tarFilePath">>, ok))
          /\ IF ok
             THEN fileExists' = FALSE /\ UNCHANGED results
             ELSE /\ results' = [results EXCEPT !.warnings = Append(@, CleanupWarning)]
                  /\ UNCHANGED fileExists
    /\ pc' = "proc_returned"
    /\ UNCHANGED <<file, valResult, thrown, response>>
    /\ UNCHANGED <<loaderVars, pusherVars>>
    /\ UNCHANGED besideRequest

-----------------------------------------------------------------------------
(* loadDockerImagesFromTar *)

\* lines 500-503
LoadPathExists ==
    /\ pc = "load_exists"
    /\ ops' = Append(ops, Op("fs.pathExists", "loader", <<"tarFilePath">>, fileExists))
    /\ IF fileExists
       THEN pc' = "load_exec" /\ UNCHANGED loadResult
       ELSE /\ loadResult' = LoadCatch(<<"Tar file not found">>)
            /\ pc' = "load_returned"
    /\ UNCHANGED <<file, fileExists, valResult, results, thrown, response,
                   loadRes, idQueue>>
    /\ UNCHANGED pusherVars
    /\ UNCHANGED besideRequest

\* AfterLoadStdout without the test of line 534: image IDs are inspected
\* although strategy 1 found names
AfterLoadStdoutInspectsAnyway(r, stdout) ==
    LET r1 == [r EXCEPT !.images = @ \o LoadedImages(stdout)]
        ids == LoadedImageIds(stdout)
    IN  IF ids # <<>>
        THEN /\ loadRes' = r1
             /\ idQueue' = ids
             /\ pc' = "load_inspect"
             /\ UNCHANGED loadResult
        ELSE IF Len(r1.images) # 0
        THEN /\ loadRes' = r1
             /\ loadResult' = LoadFinish(r1)
             /\ pc' = "load_returned"
             /\ UNCHANGED idQueue
        ELSE /\ loadRes' = r1
             /\ pc' = "load_list"
             /\ UNCHANGED <<idQueue, loadResult>>

\* lines 521-534 and 572-578: strategy 1, and where the loader goes next
AfterLoadStdout(r, stdout) ==
    LET r1 == [r EXCEPT !.images = @ \o LoadedImages(stdout)]
        ids == LoadedImageIds(stdout)
    IN  IF Len(r1.images) # 0
        THEN /\ loadRes' = r1
             /\ loadResult' = LoadFinish(r1)
             /\ pc' = "load_returned"
             /\ UNCHANGED idQueue
        ELSE IF ids # <<>>
        THEN /\ loadRes' = r1
             /\ idQueue' = ids
             /\ pc' = "load_inspect"
             /\ UNCHANGED loadResult
        ELSE /\ loadRes' = r1
             /\ pc' = "load_list"
             /\ UNCHANGED <<idQueue, loadResult>>

\* lines 507-534: docker load, with a 5 minute timeout
LoadExec ==
    /\ pc = "load_exec"
    /\ \/ \E err \in {ExecError("docker load"), TimeoutError("docker load")} :
             /\ ops' = Append(ops, Op("docker load", "loader", <<"tarFilePath">>, FALSE))
             /\ loadResult' = LoadCatch(err)
             /\ pc' = "load_returned"
             /\ UNCHANGED <<loadRes, idQueue>>
       \/ /\ fileExists
          /\ \E stdout \in LoadStdouts, stderr \in LoadStderrs :
                /\ ops' = Append(ops, WithStderr(OpOut("docker load", "loader",
                                                        <<"tarFilePath">>, TRUE, stdout),
                                                  stderr))
                /\ AfterLoadStdout(
                       [loadRes EXCEPT !.warnings = @ \o LoadStderrWarning(stderr)],
                       stdout)
    /\ UNCHANGED <<file, fileExists, valResult, results, thrown, response>>
    /\ UNCHANGED pusherVars
    /\ UNCHANGED besideRequest

\* lines 540-555: strategy 2, one image ID per step
LoadInspect ==
    /\ pc = "load_inspect"
    /\ LET id == Head(idQueue)
           rest == Tail(idQueue)
       IN  \E ok \in BOOLEAN :
             \E out \in (IF ok THEN InspectOutputs ELSE {<<>>}) :
                  LET r1 == IF ok THEN InspectOk(loadRes, out)
                                  ELSE InspectFailed(loadRes, id)
                  IN  /\ ops' = Append(ops, OpOut("docker inspect", "loader", id, ok, out))
                      /\ loadRes' = r1
                      /\ idQueue' = rest
                      /\ IF rest # <<>>
                         THEN pc' = "load_inspect" /\ UNCHANGED loadResult
                         ELSE IF Len(r1.images) # 0
                         THEN /\ loadResult' = LoadFinish(r1)
                              /\ pc' = "load_returned"
                         ELSE pc' = "load_list" /\ UNCHANGED loadResult
    /\ UNCHANGED <<file, fileExists, valResult, results, thrown, response>>
    /\ UNCHANGED pusherVars
    /\ UNCHANGED besideRequest

\* lines 555-578: strategy 3 over the given outputs of `docker images`
LoadListFrom(outputs) ==
    /\ pc = "load_list"
    /\ \E ok \in BOOLEAN :
          \E out \in (IF ok THEN outputs ELSE {<<>>}) :
               LET r1 == IF ok THEN ListOk(loadRes, out) ELSE ListFailed(loadRes)
               IN  /\ ops' = Append(ops, OpOut("docker images", "loader", <<>>, ok, out))
                   /\ loadRes' = r1
                   /\ loadResult' = LoadFinish(r1)
    /\ pc' = "load_returned"
    /\ UNCHANGED <<file, fileExists, valResult, results, thrown, response, idQueue>>
    /\ UNCHANGED pusherVars
    /\ UNCHANGED besideRequest

LoadList == LoadListFrom(ListingOutputsUpTo(MaxListed))

-----------------------------------------------------------------------------
(* pushImagesToLocalRegistry *)

\* line 617 and 736: the next image of the for-of loop, or return results
Continue(r, i) ==
    /\ pushRes' = r
    /\ idx' = i
    /\ IF i <= Len(imageNames)
       THEN pc' = "push_tag_original" /\ UNCHANGED pushResult
       ELSE pc' = "push_returned" /\ pushResult' = r

\* FailImage leaving the loop after the catch block
FailImageAbortsLoop(r, msg) ==
    Continue(PushCatch(r, imageNames[idx], msg), Len(imageNames) + 1)

\* lines 703-731, then the loop goes on with the next image
FailImage(r, msg) == Continue(PushCatch(r, imageNames[idx], msg), idx + 1)

\* lines 604-615: the connectivity probe
PushProbe ==
    /\ pc = "push_probe"
    /\ \E outcome \in {"ok", "unreachable", "throw"} :
          /\ ops' = Append(ops, Op("curl", "pusher", Registry, outcome = "ok"))
          /\ Continue(ProbeWarning(pushRes, outcome), 1)
    /\ UNCHANGED <<file, fileExists, valResult, results, thrown, response, imageNames>>
    /\ UNCHANGED loaderVars
    /\ UNCHANGED besideRequest

\* line 635
PushTagOriginal ==
    /\ pc = "push_tag_original"
    /\ LET name == imageNames[idx]
       IN  \E ok \in BOOLEAN :
             /\ ops' = Append(ops, PushOp("docker tag", OriginalLocalImageName(name), ok, idx, "original"))
             /\ IF ok
                THEN pc' = "push_push_original" /\ UNCHANGED <<idx, pushRes, pushResult>>
                ELSE FailImage(pushRes, ExecError("docker tag"))
    /\ UNCHANGED <<file, fileExists, valResult, results, thrown, response, imageNames>>
    /\ UNCHANGED loaderVars
    /\ UNCHANGED besideRequest

\* lines 638-649: push of the versioned target, with a 10 minute timeout
PushPushOriginal ==
    /\ pc = "push_push_original"
    /\ LET target == OriginalLocalImageName(imageNames[idx])
       IN  \/ \E err \in {ExecError("docker push"), TimeoutError("docker push")} :
                /\ ops' = Append(ops, PushOp("docker push", target, FALSE, idx, "original"))
                /\ FailImage(pushRes, err)
           \/ \E stderr \in PushStderrs :
                /\ ops' = Append(ops, WithStderr(PushOp("docker push", target, TRUE,
                                                         idx, "original"), stderr))
                /\ pushRes' = PushStderrWarning(pushRes, target, stderr)
                /\ pc' = "push_tag_latest"
                /\ UNCHANGED <<idx, pushResult>>
    /\ UNCHANGED <<file, fileExists, valResult, results, thrown, response, imageNames>>
    /\ UNCHANGED loaderVars
    /\ UNCHANGED besideRequest

\* line 653
PushTagLatest ==
    /\ pc = "push_tag_latest"
    /\ LET name == imageNames[idx]
       IN  \E ok \in BOOLEAN :
             /\ ops' = Append(ops, PushOp("docker tag", LatestLocalImageName(name), ok, idx, "latest"))
             /\ IF ok
                THEN pc' = "push_push_latest" /\ UNCHANGED <<idx, pushRes, pushResult>>
                ELSE FailImage(pushRes, ExecError("docker tag"))
    /\ UNCHANGED <<file, fileExists, valResult, results, thrown, response, imageNames>>
    /\ UNCHANGED loaderVars
    /\ UNCHANGED besideRequest

\* lines 669-686: both outcomes are recorded once both pushes are through
RecordSuccess(r, name) ==
    [r EXCEPT !.pushedImages = @ \o SuccessOutcomes(name)]

\* lines 656-686: push of the latest target, with a 10 minute timeout
PushPushLatest ==
    /\ pc = "push_push_latest"
    /\ LET name == imageNames[idx]
           target == LatestLocalImageName(name)
       IN  \/ \E err \in {ExecError("docker push"), TimeoutError("docker push")} :
                /\ ops' = Append(ops, PushOp("docker push", target, FALSE, idx, "latest"))
                /\ FailImage(pushRes, err)
           \/ \E stderr \in PushStderrs :
                /\ ops' = Append(ops, WithStderr(PushOp("docker push", target, TRUE,
                                                         idx, "latest"), stderr))
                /\ pushRes' = RecordSuccess(PushStderrWarning(pushRes, target, stderr), name)
                /\ pc' = "push_rmi_original"
                /\ UNCHANGED <<idx, pushResult>>
    /\ UNCHANGED <<file, fileExists, valResult, results, thrown, response, imageNames>>
    /\ UNCHANGED loaderVars
    /\ UNCHANGED besideRequest

\* PushRmiOriginal putting a failed removal among the warnings
PushRmiOriginalSurfaced ==
    /\ pc = "push_rmi_original"
    /\ \E ok \in BOOLEAN :
          /\ ops' = Append(ops, PushOp("docker rmi",
                                       OriginalLocalImageName(imageNames[idx]),
                                       ok, idx, "original"))
          /\ pushRes' = IF ok THEN pushRes
                        ELSE [pushRes EXCEPT !.warnings =
                                 Append(@, <<"Failed to cleanup local tag">>)]
    /\ pc' = "push_rmi_latest"
    /\ UNCHANGED <<file, fileExists, valResult, results, thrown, response>>
    /\ UNCHANGED <<loaderVars, imageNames, idx, pushResult>>
    /\ UNCHANGED besideRequest

\* lines 689-694: a failed removal is only logged
PushRmiOriginal ==
    /\ pc = "push_rmi_original"
    /\ \E ok \in BOOLEAN :
          ops' = Append(ops, PushOp("docker rmi", OriginalLocalImageName(imageNames[idx]),
                                    ok, idx, "original"))
    /\ pc' = "push_rmi_latest"
    /\ UNCHANGED <<file, fileExists, valResult, results, thrown, response>>
    /\ UNCHANGED <<loaderVars, pusherVars>>
    /\ UNCHANGED besideRequest

\* lines 696-701, then the loop goes on with the next image
PushRmiLatest ==
    /\ pc = "push_rmi_latest"
    /\ \E ok \in BOOLEAN :
          ops' = Append(ops, PushOp("docker rmi", LatestLocalImageName(imageNames[idx]),
                                    ok, idx, "latest"))
    /\ Continue(pushRes, idx + 1)
    /\ UNCHANGED <<file, fileExists, valResult, results, thrown, response, imageNames>>
    /\ UNCHANGED loaderVars
    /\ UNCHANGED besideRequest

-----------------------------------------------------------------------------
(* Environment *)

\* where the next step of the request looks at the staged path (stat,
\* pathExists, docker load, unlink)
ReadsPath ==
    pc \in {"validate", "invalid_unlink", "handler_catch", "proc_thrown",
            "load_exists", "load_exec", "proc_unlink"}

\* The staged name is `${Date.now()}-${file.originalname}` (line 122): an upload
\* of the same name in the same millisecond is staged at the same path, and
\* its own run unlinks that path while this one is still at work. The request
\* cannot tell when the path went away before it next looks at it, so the
\* removal is taken right before such a step.
ConcurrentUnlink ==
    /\ ReadsPath
    /\ fileExists
    /\ fileExists' = FALSE
    /\ UNCHANGED <<pc, file, ops, valResult, results, thrown, response>>
    /\ UNCHANGED <<loaderVars, pusherVars>>
    /\ UNCHANGED besideRequest

\* The calls made through execPromise without a timeout option (tar at line
\* 394, docker version 433, docker inspect 544, docker images 558, curl 608,
\* docker tag 635 and 653, docker rmi 690 and 697): where the request waits
\* for good when the subprocess never exits. docker load (line 507) and
\* docker push (lines 638, 656) carry a timeout and end in TimeoutError.
HungAt ==
    [validate |-> "hung_tar",
     proc_version |-> "hung_docker_version",
     load_inspect |-> "hung_docker_inspect",
     load_list |-> "hung_docker_images",
     push_probe |-> "hung_curl",
     push_tag_original |-> "hung_docker_tag",
     push_tag_latest |-> "hung_docker_tag",
     push_rmi_original |-> "hung_docker_rmi",
     push_rmi_latest |-> "hung_docker_rmi"]

\* the subprocess of the next step never exits: its await never settles
Hang ==
    /\ pc \in DOMAIN HungAt
    /\ pc = "validate"
          => (fileExists /\ file.isFile /\ file.sizeKiB > 0 /\ file.sizeKiB <= MaxTarKiB)
    /\ pc' = HungAt[pc]
    /\ UNCHANGED <<file, fileExists, ops, valResult, results, thrown, response>>
    /\ UNCHANGED <<loaderVars, pusherVars>>
    /\ UNCHANGED besideRequest

-----------------------------------------------------------------------------

HandlerNext ==
    \/ Upload
    \/ HandlerValidate
    \/ HandlerRejectInvalid
    \/ HandlerCatch
    \/ HandlerRespond

ProcNext ==
    \/ ProcDockerVersion
    \/ ProcAfterLoad
    \/ ProcAfterPush
    \/ ProcUnlink

LoaderNext ==
    \/ LoadPathExists
    \/ LoadExec
    \/ LoadInspect
    \/ LoadList

PusherNext ==
    \/ PushProbe
    \/ PushTagOriginal
    \/ PushPushOriginal
    \/ PushTagLatest
    \/ PushPushLatest
    \/ PushRmiOriginal
    \/ PushRmiLatest

Next ==
    \/ HandlerNext
    \/ ProcNext
    \/ LoaderNext
    \/ PusherNext
    \/ ConcurrentUnlink
    \/ Hang

Spec == Init /\ [][Next]_vars

-----------------------------------------------------------------------------
(* The upload directory under concurrent uploads: every request stages its   *)
(* file through dockerTarStorage, hands the staged path to docker load, and  *)
(* unlinks it.                                                               *)

OriginalNames == {"images.tar", "backup.tar"}

\* line 122: `${Date.now()}-${file.originalname}`
StagedName(t, originalname) == <<t, "-", originalname>>

Written(path) == {f \in disk : f.path = path}

\* who wrote what is at the path, 0 if nothing is there
WriterOf(path) ==
    IF Written(path) = {} THEN 0 ELSE (CHOOSE f \in Written(path) : TRUE).writer

\* Date.now() moves on between two events, or does not
Tick ==
    /\ now < MaxClock
    /\ now' = now + 1
    /\ UNCHANGED <<runs, disk>>
    /\ UNCHANGED besideStaging

\* lines 117-124: multer names the file of upload r and writes it under
\* uploadDir, over whatever is at that path
Stage(r) ==
    /\ runs[r].phase = "new"
    /\ \E originalname \in OriginalNames :
          LET path == StagedName(now, originalname)
          IN  /\ runs' = [runs EXCEPT ![r].phase = "staged", ![r].path = path]
              /\ disk' = (disk \ Written(path)) \cup {[path |-> path, writer |-> r]}
    /\ UNCHANGED now
    /\ UNCHANGED besideStaging

\* line 507: docker load -i on the staged path of upload r reads what is there
RunLoad(r) ==
    /\ runs[r].phase = "staged"
    /\ runs' = [runs EXCEPT ![r].phase = "loaded", ![r].loaded = WriterOf(runs[r].path)]
    /\ UNCHANGED <<now, disk>>
    /\ UNCHANGED besideStaging

\* lines 176, 198, 473: fs.unlink on the staged path of upload r removes what
\* is there
RunUnlink(r) ==
    /\ runs[r].phase = "loaded"
    /\ runs' = [runs EXCEPT ![r].phase = "done", ![r].unlinked = WriterOf(runs[r].path)]
    /\ disk' = disk \ Written(runs[r].path)
    /\ UNCHANGED now
    /\ UNCHANGED besideStaging

StagingNext ==
    \/ Tick
    \/ \E r \in Uploads : Stage(r)
    \/ \E r \in Uploads : RunLoad(r)
    \/ \E r \in Uploads : RunUnlink(r)

StagingSpec == Init /\ [][StagingNext]_vars

-----------------------------------------------------------------------------
(* DockerBuildManager (build/dockerBuildManager.js)                          *)

\* a call that was accepted and has not yet run its finally block
Accepted(c) == calls[c].phase \in {"path_check", "script", "settled"}

BusyError == <<"Build process is already in progress">>

BuildFailed(reason) == <<"Docker build failed: ">> \o reason

ScriptEvents == {"close_0", "close_nonzero", "error"}

ScriptError(event) ==
    IF event = "error"
    THEN <<"Failed to start build script: ", "spawn bash ENOENT">>
    ELSE <<"Build script exited with code ", "1", ". Error: ">>

\* buildAndPushImages entered without the test of lines 12-14
buildAndPushImagesUnguarded(c) ==
    /\ ~Accepted(c)
    /\ buildInProgress' = TRUE
    /\ \E withFile \in BOOLEAN :
          calls' = [calls EXCEPT ![c] =
              IF withFile
              THEN [phase |-> "path_check", spawned |-> FALSE, outcome |-> "none",
                    error |-> <<>>]
              ELSE [phase |-> "script", spawned |-> TRUE, outcome |-> "none",
                    error |-> <<>>]]
    /\ UNCHANGED besideManager

\* lines 11-37, up to the first await. A call made while the flag is set
\* throws at line 13, outside the try. An accepted call sets the flag; it then
\* fails on the spot when `versions` is null (line 24 throws inside the try:
\* catch and finally run before it gives way), awaits fs.pathExists when it
\* was given a file (line 33), and spawns the script otherwise (line 59).
buildAndPushImages(c) ==
    /\ ~Accepted(c)
    /\ IF buildInProgress
       THEN /\ calls' = [calls EXCEPT ![c] =
                   [phase |-> "rejected", spawned |-> FALSE, outcome |-> "none",
                    error |-> BusyError]]
            /\ UNCHANGED buildInProgress
       ELSE \E versionsGiven \in BOOLEAN, withFile \in BOOLEAN :
              IF ~versionsGiven
              THEN /\ calls' = [calls EXCEPT ![c] =
                          [phase |-> "threw", spawned |-> FALSE, outcome |-> "none",
                           error |-> BuildFailed(<<"Cannot read properties of null">>)]]
                   /\ buildInProgress' = FALSE
              ELSE /\ buildInProgress' = TRUE
                   /\ calls' = [calls EXCEPT ![c] =
                          IF withFile
                          THEN [phase |-> "path_check", spawned |-> FALSE,
                                outcome |-> "none", error |-> <<>>]
                          ELSE [phase |-> "script", spawned |-> TRUE,
                                outcome |-> "none", error |-> <<>>]]
    /\ UNCHANGED besideManager

\* lines 33-37 and 55-62: fs.pathExists has answered, the script is spawned
PathExistsSettles(c) ==
    /\ calls[c].phase = "path_check"
    /\ calls' = [calls EXCEPT ![c].phase = "script", ![c].spawned = TRUE]
    /\ UNCHANGED buildInProgress
    /\ UNCHANGED besideManager

\* lines 79-92: the child process closes, or could not be started
ScriptSettles(c) ==
    /\ calls[c].phase = "script"
    /\ \E event \in ScriptEvents :
          calls' = [calls EXCEPT ![c].phase = "settled", ![c].outcome = event]
    /\ UNCHANGED buildInProgress
    /\ UNCHANGED besideManager

\* BuildReturns without the finally block of lines 50-52
BuildReturnsFlagKept(c) ==
    /\ calls[c].phase = "settled"
    /\ calls' = [calls EXCEPT
          ![c].phase = IF calls[c].outcome = "close_0" THEN "returned" ELSE "threw",
          ![c].error = IF calls[c].outcome = "close_0" THEN <<>>
                       ELSE BuildFailed(ScriptError(calls[c].outcome))]
    /\ UNCHANGED buildInProgress
    /\ UNCHANGED besideManager

\* lines 37-52: the await of executeScript is over: return or rethrow, and
\* the finally block resets the flag
BuildReturns(c) ==
    /\ calls[c].phase = "settled"
    /\ calls' = [calls EXCEPT
          ![c].phase = IF calls[c].outcome = "close_0" THEN "returned" ELSE "threw",
          ![c].error = IF calls[c].outcome = "close_0" THEN <<>>
                       ELSE BuildFailed(ScriptError(calls[c].outcome))]
    /\ buildInProgress' = FALSE
    /\ UNCHANGED besideManager

\* line 96
isBuildInProgress == buildInProgress

ManagerNext ==
    \/ \E c \in Callers : buildAndPushImages(c)
    \/ \E c \in Callers : PathExistsSettles(c)
    \/ \E c \in Callers : ScriptSettles(c)
    \/ \E c \in Callers : BuildReturns(c)

ManagerSpec == Init /\ [][ManagerNext]_vars

-----------------------------------------------------------------------------
(* Two runs of pushImagesToLocalRegistry (part_007 lines 617-736) on one     *)
(* engine.  Nothing serialises the requests: each await of a run is a point  *)
(* where the other run's commands can go in between.  The engine does what   *)
(* it is asked whenever it can: `docker tag` creates the reference, `docker  *)
(* push` and `docker rmi` fail only for a reference the engine does not hold.*)

LocalNameOf(image, variant) ==
    IF variant = "original" THEN OriginalLocalImageName(image)
                            ELSE LatestLocalImageName(image)

\* line 617: the loop is entered with the one image of the request
RaceEnter(r) ==
    /\ pushers[r].at = "idle"
    /\ \E image \in RepoImages :
          pushers' = [pushers EXCEPT ![r] = [@ EXCEPT !.at = "tag_original",
                                                      !.image = image]]
    /\ UNCHANGED localRefs
    /\ UNCHANGED besideRace

\* lines 635 and 653: docker tag
RaceTag(r, variant) ==
    /\ pushers[r].at = IF variant = "original" THEN "tag_original" ELSE "tag_latest"
    /\ localRefs' = localRefs \cup {LocalNameOf(pushers[r].image, variant)}
    /\ pushers' = [pushers EXCEPT ![r].at =
                      IF variant = "original" THEN "push_original" ELSE "push_latest"]
    /\ UNCHANGED besideRace

\* lines 638-640 and 656-686: docker push; the push of a reference that is
\* gone rejects into the catch block of lines 703-731
RacePush(r, variant) ==
    /\ pushers[r].at = IF variant = "original" THEN "push_original" ELSE "push_latest"
    /\ LET image == pushers[r].image
       IN  pushers' = [pushers EXCEPT ![r] =
             IF LocalNameOf(image, variant) \notin localRefs
             THEN [@ EXCEPT !.at = "returned",
                            !.errors = Append(@, <<"Failed to push ">> \o image
                                                    \o <<": ">> \o ExecError("docker push")),
                            !.pushedImages = FailedOutcomes(image, ExecError("docker push"))]
             ELSE IF variant = "original"
             THEN [@ EXCEPT !.at = "tag_latest"]
             ELSE [@ EXCEPT !.at = "rmi_original",
                            !.pushedImages = SuccessOutcomes(image)]]
    /\ UNCHANGED localRefs
    /\ UNCHANGED besideRace

\* lines 688-701: docker rmi; its failure is only logged
RaceRmi(r, variant) ==
    /\ pushers[r].at = IF variant = "original" THEN "rmi_original" ELSE "rmi_latest"
    /\ localRefs' = localRefs \ {LocalNameOf(pushers[r].image, variant)}
    /\ pushers' = [pushers EXCEPT ![r].at =
                      IF variant = "original" THEN "rmi_latest" ELSE "returned"]
    /\ UNCHANGED besideRace

RaceNext ==
    \/ \E r \in Racers : RaceEnter(r)
    \/ \E r \in Racers, variant \in {"original", "latest"} : RaceTag(r, variant)
    \/ \E r \in Racers, variant \in {"original", "latest"} : RacePush(r, variant)
    \/ \E r \in Racers, variant \in {"original", "latest"} : RaceRmi(r, variant)

RaceSpec == Init /\ [][RaceNext]_vars

-----------------------------------------------------------------------------
(* DockerBuilder.buildAndPushAll (build/dockerBuilder.js) and the handler of *)
(* POST /api/upload that calls it (part_005)                                 *)

\* dockerBuilder.js lines 180-208: checkDockerStatus, buildImage (two
\* pathExists and docker build), tagImageForRegistry (two tags) and two
\* pushImageToRegistry, each of which rejects on failure
ServiceSteps ==
    <<"docker version", "workdir exists", "Dockerfile exists", "docker build",
      "docker tag versioned", "docker tag latest", "docker push versioned",
      "docker push latest">>

\* lines 255-256 and 271: which services the versions ask for
Wanted(v, service) ==
    IF service = "buco"
    THEN v.bucoVersion # "" \/ v.fullPackageVersion # ""
    ELSE v.subcoVersion # ""

\* versions.bucoVersion || versions.fullPackageVersion
VersionOf(v, service) ==
    IF service = "buco"
    THEN (IF v.bucoVersion # "" THEN v.bucoVersion ELSE v.fullPackageVersion)
    ELSE v.subcoVersion

\* lines 198-203
ServiceResult(v, service) ==
    [success |-> TRUE, service |-> service, version |-> VersionOf(v, service),
     images |-> [versioned |-> <<"100.103.254.213:5001/", service, ":", VersionOf(v, service)>>,
                 latest |-> <<"100.103.254.213:5001/", service, ":", "latest">>]]

\* lines 262-266
ServiceError(v, service, failedStep) ==
    [service |-> service, version |-> VersionOf(v, service),
     error |-> <<"failed: ", failedStep>>]

\* lines 285-298
BuildAllReturn(b) ==
    [returned |-> TRUE, success |-> Len(b.results) > 0, results |-> b.results,
     errors |-> b.errors, registry |-> "100.103.254.213:5001"]

\* lines 299-308: the outer catch
BuildAllCatch ==
    [returned |-> TRUE, success |-> FALSE, results |-> <<>>,
     errors |-> <<[service |-> "unknown", error |-> <<"Cannot read properties of null">>]>>,
     registry |-> "100.103.254.213:5001"]

\* AfterBuco ending the run once buco has failed
AfterBucoStopsOnFailure(v, failed) ==
    IF ~failed /\ Wanted(v, "subco") THEN "subco" ELSE "finish"

\* line 271: where buildAndPushAll goes once it is through with buco
AfterBuco(v, failed) == IF Wanted(v, "subco") THEN "subco" ELSE "finish"

\* lines 246-256: entry of buildAndPushAll with versions v
EnterBuildAll(v) ==
    /\ versions' = v
    /\ built' = NothingBuilt
    /\ step' = 1
    /\ IF ~v.given
       THEN /\ buildReturn' = BuildAllCatch
            /\ bpc' = "returned"
       ELSE /\ UNCHANGED buildReturn
            /\ bpc' = IF Wanted(v, "buco") THEN "buco" ELSE AfterBuco(v, FALSE)

\* test-docker-build.js lines 36-41: a script calls buildAndPushAll
ScriptCallsBuildAll ==
    /\ bpc = "idle"
    /\ caller' = "script"
    /\ \E v \in AnyVersions : EnterBuildAll(v)
    /\ UNCHANGED <<blog, published, uresponse>>
    /\ UNCHANGED besideBuilder

\* part_005 lines 145-160: POST /api/upload; without a file a 400, with one
\* the versions are worked out and buildAndPushAll is called with them
UploadCallsBuildAll ==
    /\ bpc = "idle"
    /\ caller' = "handler"
    /\ \E withFile \in BOOLEAN :
          IF withFile
          THEN /\ \E v \in VersionData : EnterBuildAll(v)
               /\ UNCHANGED uresponse
          ELSE /\ uresponse' = [status |-> 400, error |-> <<"No file uploaded">>]
               /\ bpc' = "responded"
               /\ UNCHANGED <<versions, built, step, buildReturn>>
    /\ UNCHANGED <<blog, published>>
    /\ UNCHANGED besideBuilder

\* dockerBuilder.js lines 257-267 and 272-282: one step of the build of a
\* service; its failure is caught and recorded, its last step records the
\* result, and either way buildAndPushAll goes on
ServiceStep(service) ==
    /\ bpc = service
    /\ \E ok \in BOOLEAN :
          /\ blog' = Append(blog, [service |-> service, cmd |-> ServiceSteps[step], ok |-> ok])
          /\ IF ok /\ step < Len(ServiceSteps)
             THEN /\ step' = step + 1
                  /\ UNCHANGED <<bpc, built>>
             ELSE /\ step' = 1
                  /\ built' = IF ok
                               THEN [built EXCEPT !.results =
                                        Append(@, ServiceResult(versions, service))]
                               ELSE [built EXCEPT !.errors =
                                        Append(@, ServiceError(versions, service,
                                                               ServiceSteps[step]))]
                  /\ bpc' = IF service = "buco" THEN AfterBuco(versions, ~ok)
                                                 ELSE "finish"
    /\ UNCHANGED <<caller, versions, buildReturn, published, uresponse>>
    /\ UNCHANGED besideBuilder

\* lines 285-298: buildAndPushAll returns
BuildAllReturns ==
    /\ bpc = "finish"
    /\ buildReturn' = BuildAllReturn(built)
    /\ bpc' = "returned"
    /\ UNCHANGED <<caller, versions, step, blog, built, published, uresponse>>
    /\ UNCHANGED besideBuilder

\* part_005 lines 172-200: the handler publishes the file information with
\* the build result to /newUpdate and answers; a failed publish is only logged
UploadResponds ==
    /\ bpc = "returned"
    /\ caller = "handler"
    /\ published' = Append(published, "/newUpdate")
    /\ uresponse' = [status |-> 200, dockerResult |-> buildReturn]
    /\ bpc' = "responded"
    /\ UNCHANGED <<caller, versions, step, blog, built, buildReturn>>
    /\ UNCHANGED besideBuilder

BuilderNext ==
    \/ ScriptCallsBuildAll
    \/ UploadCallsBuildAll
    \/ ServiceStep("buco")
    \/ ServiceStep("subco")
    \/ BuildAllReturns
    \/ UploadResponds

BuilderSpec == Init /\ [][BuilderNext]_vars

\* The handler is a chain of awaits: when the awaited call settles, the event
\* loop runs the continuation, so a request that can take a step takes one.
LiveSpec == Spec /\ WF_vars(Next)

\* strategy 3 on a host whose engine holds more images than the loader takes
LoadListOfHost == LoadListFrom(ListingOutputsUpTo(MaxRecent))

\* a request up to the return of the loader, on such a host
ListingNext ==
    \/ Upload
    \/ HandlerValidate
    \/ ProcDockerVersion
    \/ LoadPathExists
    \/ LoadExec
    \/ LoadInspect
    \/ LoadListOfHost

ListingSpec == Init /\ [][ListingNext]_vars

\* validateDockerTarFile on its own, applied to every kind of path
InitValidator ==
    /\ pc = "validate"
    /\ file \in AnyFiles
    /\ fileExists \in BOOLEAN
    /\ ops = <<>>
    /\ valResult = [isValid |-> FALSE, error |-> NoError]
    /\ results = EmptyResults
    /\ loadRes = EmptyLoad
    /\ idQueue = <<>>
    /\ loadResult = EmptyLoad
    /\ imageNames = <<>>
    /\ idx = 1
    /\ pushRes = EmptyPush
    /\ pushResult = EmptyPush
    /\ thrown = NoError
    /\ response = NoResponse
    /\ StagingInit
    /\ ManagerInit
    /\ BuilderInit
    /\ RaceInit

ValidatorSpec == InitValidator /\ [][HandlerValidate]_vars

-----------------------------------------------------------------------------
(* Vocabulary of the properties, read off the calls made so far *)

Called(cmd) == \E i \in 1..Len(ops) : ops[i].cmd = cmd

CalledBy(by) == \E i \in 1..Len(ops) : ops[i].by = by

UnlinkCalledBy(by) ==
    \E i \in 1..Len(ops) : ops[i].cmd = "unlink" /\ ops[i].by = by

UnlinkFailed == \E i \in 1..Len(ops) : ops[i].cmd = "unlink" /\ ~ops[i].ok

UnlinkSucceeded == \E i \in 1..Len(ops) : ops[i].cmd = "unlink" /\ ops[i].ok

\* the pusher ran cmd for the variant of the k-th image, with the given result
PusherRan(k, variant, cmd, ok) ==
    \E i \in 1..Len(ops) :
        /\ ops[i].by = "pusher" /\ ops[i].image = k /\ ops[i].variant = variant
        /\ ops[i].cmd = cmd /\ ops[i].ok = ok

PusherTried(k, variant, cmd) ==
    PusherRan(k, variant, cmd, TRUE) \/ PusherRan(k, variant, cmd, FALSE)

\* re-tagging or pushing the variant's target of the k-th image failed
VariantFailed(k, variant) ==
    PusherRan(k, variant, "docker tag", FALSE)
        \/ PusherRan(k, variant, "docker push", FALSE)

LoadSucceeded == \E i \in 1..Len(ops) : ops[i].cmd = "docker load" /\ ops[i].ok

\* the tar was missing, or docker load exited non-zero or ran into its timeout
LoadFailed ==
    \E i \in 1..Len(ops) :
        /\ ops[i].cmd \in {"fs.pathExists", "docker load"}
        /\ ~ops[i].ok

OutputOf(cmd) ==
    LET i == CHOOSE i \in 1..Len(ops) : ops[i].cmd = cmd /\ ops[i].ok
    IN  ops[i].out

\* what each name-recovery strategy has yielded so far
Strategy1 == IF LoadSucceeded THEN LoadedImages(OutputOf("docker load")) ELSE <<>>

Strategy2 ==
    LET inspected == SelectSeq(ops, LAMBDA o : o.cmd = "docker inspect" /\ o.ok)
    IN  Flatten([i \in 1..Len(inspected) |-> InspectTags(inspected[i].out)])

Strategy3 ==
    IF \E i \in 1..Len(ops) : ops[i].cmd = "docker images" /\ ops[i].ok
    THEN Slice(RecentImages(OutputOf("docker images")), RecentLimit)
    ELSE <<>>

OutcomeFields == {"originalName", "localName", "registryUrl", "tag", "status", "type"}

-----------------------------------------------------------------------------
(* C1: when the response of a request that staged a file is sent (200, 400   *)
(* or 500) and no unlink call of the request failed, the staged file has     *)
(* been unlinked: it is gone from disk and an unlink call succeeded.         *)
C1_StagedFileUnlinkedBeforeResponse ==
    /\ response.status \in {0, 200, 400, 500}
    /\ (response.status # 0 /\ file.staged /\ ~UnlinkFailed)
          => (~fileExists /\ UnlinkSucceeded)

\* a 500 after the engine check failed, the file removed by the handler
C1_Witness ==
    /\ response.status = 500
    /\ file.staged
    /\ ~UnlinkFailed
    /\ ~fileExists
    /\ Called("docker version")

(* C2, as claimed: at every exit of processDockerTarFile, by return or by    *)
(* throw, processDockerTarFile has called unlink on the tar.                 *)
C2_ProcUnlinksOnEveryExit ==
    pc \in {"proc_returned", "proc_thrown"} => UnlinkCalledBy("processDockerTarFile")

(* C2, amended: processDockerTarFile calls unlink before it returns a        *)
(* result (the file is gone unless an unlink failed); when it throws because *)
(* the engine is unreachable it has not called unlink, and the handler's     *)
(* catch block calls it before the 500 response.                             *)
C2_ProcUnlinksOnReturnOnly ==
    /\ pc = "proc_returned"
          => (UnlinkCalledBy("processDockerTarFile") /\ (~UnlinkFailed => ~fileExists))
    /\ pc = "proc_thrown"
          => (~UnlinkCalledBy("processDockerTarFile") /\ thrown = DaemonError)
    /\ response.status = 500
          => (UnlinkCalledBy("handler") /\ (~UnlinkFailed => ~fileExists))

\* processDockerTarFile has thrown and the tar is still on disk
C2_Witness ==
    /\ pc = "proc_thrown"
    /\ fileExists
    /\ ~Called("unlink")

(* C3: when pushImagesToLocalRegistry returns, pushedImages holds exactly    *)
(* two outcomes per element of imageNames, an 'original' followed by a       *)
(* 'latest', each with all six fields, whatever failed; nothing is           *)
(* deduplicated.                                                             *)
C3_TwoOutcomesPerImage ==
    pc = "push_returned" =>
        LET out == pushResult.pushedImages
        IN  /\ Len(out) = 2 * Len(imageNames)
            /\ \A k \in 1..Len(imageNames) :
                  /\ OutcomeFields \subseteq DOMAIN out[2 * k - 1]
                  /\ OutcomeFields \subseteq DOMAIN out[2 * k]
                  /\ out[2 * k - 1].type = "original"
                  /\ out[2 * k].type = "latest"
                  /\ out[2 * k - 1].originalName = imageNames[k]
                  /\ out[2 * k].originalName = imageNames[k]
                  /\ out[2 * k - 1].status \in {"success", "failed"}
                  /\ out[2 * k].status \in {"success", "failed"}

\* the same reference twice, failed once and pushed once: four outcomes
C3_Witness ==
    /\ pc = "push_returned"
    /\ Len(imageNames) = 2
    /\ imageNames[1] = imageNames[2]
    /\ Len(pushResult.pushedImages) = 4
    /\ pushResult.pushedImages[1].status = "failed"
    /\ pushResult.pushedImages[3].status = "success"

(* C4, as claimed: when re-tagging or pushing the versioned target of an     *)
(* image fails, a failed 'original' outcome is recorded, the 'latest' target *)
(* is still re-tagged, and the 'latest' outcome is a success exactly when    *)
(* the latest tag and push went through.                                     *)
C4_LatestAttemptedAfterVersionedFailure ==
    pc = "push_returned" =>
        \A k \in 1..Len(imageNames) :
            VariantFailed(k, "original") =>
                /\ pushResult.pushedImages[2 * k - 1].type = "original"
                /\ pushResult.pushedImages[2 * k - 1].status = "failed"
                /\ PusherTried(k, "latest", "docker tag")
                /\ (pushResult.pushedImages[2 * k].status = "success"
                       <=> PusherRan(k, "latest", "docker push", TRUE))

(* C5, as claimed: when for one image the push of the versioned tag succeeds *)
(* and the push of the latest tag fails, the response is a 200 whose result  *)
(* holds a 'success' outcome of type original and a 'failed' outcome of type *)
(* latest for that image.                                                    *)
C5_VersionedSuccessKeptWhenLatestFails ==
    pc = "responded" =>
        \A k \in 1..Len(imageNames) :
            (/\ PusherRan(k, "original", "docker push", TRUE)
             /\ PusherRan(k, "latest", "docker push", FALSE))
                => /\ response.status = 200
                   /\ response.dockerResult.pushedImages[2 * k - 1].type = "original"
                   /\ response.dockerResult.pushedImages[2 * k - 1].status = "success"
                   /\ response.dockerResult.pushedImages[2 * k].type = "latest"
                   /\ response.dockerResult.pushedImages[2 * k].status = "failed"

(* C6: a tag or push failure never ends the pusher's loop: when the pusher   *)
(* returns, every image of the list has been tagged (and pushed, if the tag  *)
(* went through), the calls were made in list order, and the outcomes are in *)
(* list order.                                                               *)
C6_FailureDoesNotAbortLoop ==
    pc = "push_returned" =>
        /\ idx = Len(imageNames) + 1
        /\ Len(pushResult.pushedImages) = 2 * Len(imageNames)
        /\ \A k \in 1..Len(imageNames) :
              /\ PusherTried(k, "original", "docker tag")
              /\ PusherRan(k, "original", "docker tag", TRUE)
                    => PusherTried(k, "original", "docker push")
              /\ pushResult.pushedImages[2 * k - 1].originalName = imageNames[k]
              /\ pushResult.pushedImages[2 * k].originalName = imageNames[k]
        /\ \A i, j \in 1..Len(ops) :
              (i < j /\ ops[i].image > 0 /\ ops[j].image > 0)
                  => ops[i].image <= ops[j].image

\* the first image failed, the second one was pushed all the same
C6_Witness ==
    /\ pc = "push_returned"
    /\ Len(imageNames) = 2
    /\ VariantFailed(1, "original")
    /\ pushResult.pushedImages[1].status = "failed"
    /\ PusherRan(2, "latest", "docker push", TRUE)
    /\ pushResult.pushedImages[3].status = "success"

\* strategy 3 has run and the loader has come back with no image name
ZeroNamesByAllStrategies ==
    /\ LoadSucceeded
    /\ Called("docker images")
    /\ loadResult.images = <<>>

\* what C7 says of the response, but for the tar on disk
NoImagesResponse ==
    /\ ~CalledBy("pusher")
    /\ response.status = 200
    /\ response.dockerResult.loadedImages = <<>>
    /\ response.dockerResult.pushedImages = <<>>
    /\ Includes(response.dockerResult.errors, NoImagesError)
    /\ Includes(response.dockerResult.warnings, NoImagesWarning)

(* C7, as claimed: when the loader recovers no name by any of the three      *)
(* strategies, the pusher makes no call (no probe, tag or push), the         *)
(* response is a 200 with loadedImages = [], pushedImages = [], the          *)
(* no-images error and the no-images warning, and the tar is off the disk.   *)
C7_NoImagesThenTarRemoved ==
    (pc = "responded" /\ ZeroNamesByAllStrategies)
        => (NoImagesResponse /\ ~fileExists)

(* C7, amended: as claimed, except that the tar is off the disk unless the   *)
(* unlink call itself fails, and then the result's warnings also carry       *)
(* 'Failed to cleanup tar file: ...'.                                        *)
C7_NoImagesThenTarRemovedUnlessUnlinkFails ==
    (pc = "responded" /\ ZeroNamesByAllStrategies)
        => /\ NoImagesResponse
           /\ UnlinkCalledBy("processDockerTarFile")
           /\ ~UnlinkFailed => ~fileExists
           /\ UnlinkFailed => Includes(response.dockerResult.warnings, CleanupWarning)

\* no name by any strategy, a 200, the tar removed
C7_Witness ==
    /\ pc = "responded"
    /\ ZeroNamesByAllStrategies
    /\ response.status = 200
    /\ ~UnlinkFailed
    /\ ~fileExists

(* C8: loadDockerImagesFromTar never throws: once it is entered the request  *)
(* never reaches a catch block or a 500; when the tar is missing or docker   *)
(* load exits non-zero or times out, it returns at once with images = [] and *)
(* a non-empty errors list, and the pipeline makes no pusher call and        *)
(* answers 200 with pushedImages = [].                                       *)
C8_LoaderNeverThrows ==
    /\ CalledBy("loader")
          => (pc \notin {"proc_thrown", "handler_catch"} /\ response.status \in {0, 200})
    /\ LoadFailed
          => /\ pc \in {"load_returned", "proc_unlink", "proc_returned", "responded"}
             /\ loadResult.images = <<>>
             /\ Len(loadResult.errors) > 0
             /\ ~CalledBy("pusher")
    /\ (LoadFailed /\ pc = "responded")
          => (response.status = 200 /\ response.dockerResult.pushedImages = <<>>)

\* the load timeout fired, the request was answered 200
C8_Witness ==
    /\ pc = "responded"
    /\ LoadFailed
    /\ loadResult.errors
          = << <<"Failed to load images from tar: ">> \o TimeoutError("docker load") >>
    /\ response.status = 200

(* C9: the loader tries its strategies in fixed order and stops at the first *)
(* that yields a name: docker inspect is called only if no 'Loaded image:'   *)
(* line was parsed, docker images only if neither lines nor inspections      *)
(* yielded a name, and the returned images are those of exactly one          *)
(* strategy.                                                                 *)
C9_StrategiesInPriorityOrder ==
    /\ Called("docker inspect") => Strategy1 = <<>>
    /\ Called("docker images") => (Strategy1 = <<>> /\ Strategy2 = <<>>)
    /\ (pc = "load_returned" /\ LoadSucceeded)
          => loadResult.images =
                IF Strategy1 # <<>> THEN Strategy1
                ELSE IF Strategy2 # <<>> THEN Strategy2
                ELSE Strategy3

\* the names came from the inspection of an image ID
C9_Witness ==
    /\ pc = "load_returned"
    /\ Strategy1 = <<>>
    /\ Strategy2 # <<>>
    /\ ~Called("docker images")
    /\ loadResult.images = Strategy2

\* docker load went through and reported at least one image, by name or by ID
EngineLoadedAnImage ==
    /\ LoadSucceeded
    /\ \/ LoadedImages(OutputOf("docker load")) # <<>>
       \/ LoadedImageIds(OutputOf("docker load")) # <<>>

(* C10, as claimed: whenever the engine loads at least one image, the loader *)
(* returns at least one image name and no error, whatever the load output's  *)
(* format and whatever inspect and images return.                            *)
C10_LoadAlwaysRecoversAName ==
    (pc = "load_returned" /\ EngineLoadedAnImage)
        => (Len(loadResult.images) >= 1 /\ loadResult.errors = <<>>)

(* C10, amended: when the engine loads at least one image, the loader        *)
(* returns at least one name and no error provided one of the strategies     *)
(* yields a name (a 'Loaded image:' line, a repo tag from docker inspect, or *)
(* a line of docker images); when the load prints only image IDs and neither *)
(* inspect nor images yields a name, it returns images = [] and the single   *)
(* error 'No Docker images were successfully loaded from the tar file'.      *)
C10_LoadRecoversANameIfAStrategyYields ==
    (pc = "load_returned" /\ EngineLoadedAnImage)
        => IF Strategy1 # <<>> \/ Strategy2 # <<>> \/ Strategy3 # <<>>
           THEN Len(loadResult.images) >= 1 /\ loadResult.errors = <<>>
           ELSE loadResult.images = <<>> /\ loadResult.errors = <<NoImagesError>>

\* an image loaded by ID only, named by the docker images listing
C10_Witness ==
    /\ pc = "load_returned"
    /\ EngineLoadedAnImage
    /\ Strategy1 = <<>>
    /\ Strategy2 = <<>>
    /\ Strategy3 # <<>>
    /\ loadResult.images = Strategy3
    /\ loadResult.errors = <<>>

-----------------------------------------------------------------------------
\* `docker version` exited with an error: the engine is unreachable
EngineCheckFailed ==
    \E i \in 1..Len(ops) : ops[i].cmd = "docker version" /\ ~ops[i].ok

EngineCheckPassed ==
    \E i \in 1..Len(ops) : ops[i].cmd = "docker version" /\ ops[i].ok

EngineWorkCommands ==
    {"docker load", "docker inspect", "docker images", "docker tag", "docker push",
     "docker rmi"}

NoEngineWork ==
    /\ \A i \in 1..Len(ops) : ops[i].cmd \notin EngineWorkCommands
    /\ ~CalledBy("loader")
    /\ ~CalledBy("pusher")

\* what C11 says of a request whose engine check failed, but for the tar
FailsFast ==
    /\ valResult.isValid
    /\ NoEngineWork
    /\ pc \in {"proc_thrown", "responded"}
    /\ thrown = DaemonError
    /\ pc = "responded"
          => /\ response.status = 500
             /\ response.error = <<"Failed to process Docker tar upload">>
             /\ response.details = DaemonError

(* C11, as claimed: when the engine check of a request fails, no load, tag   *)
(* or push is invoked, processDockerTarFile throws, the response is a 500    *)
(* with error and details, and the tar is off the disk when it is sent.      *)
C11_EngineDownFailsFastTarRemoved ==
    EngineCheckFailed => (FailsFast /\ (pc = "responded" => ~fileExists))

(* C11, amended: as claimed, except that the handler's catch block attempts  *)
(* the unlink and the tar is off the disk unless that unlink call fails; the *)
(* 500 is sent either way.                                                   *)
C11_EngineDownFailsFastTarRemovedUnlessUnlinkFails ==
    EngineCheckFailed
        => /\ FailsFast
           /\ pc = "responded"
                 => /\ UnlinkCalledBy("handler")
                    /\ ~UnlinkCalledBy("processDockerTarFile")
                    /\ ~UnlinkFailed => ~fileExists

\* a valid tar, the engine down: one engine call, one unlink, a 500
C11_Witness ==
    /\ pc = "responded"
    /\ EngineCheckFailed
    /\ valResult.isValid
    /\ Len(ops) = 2
    /\ ops[2].cmd = "unlink" /\ ops[2].ok
    /\ response.status = 500
    /\ ~fileExists

-----------------------------------------------------------------------------
\* the validator has returned for the staged file of the request
ValidatorHasRun == file.staged /\ pc \notin {"idle", "validate", "hung_tar"}

(* C12, as claimed: the engine check precedes the validator: once the        *)
(* validator has run, docker version has been called, and a request whose    *)
(* file is invalid is answered with the 500 of an unreachable engine, never  *)
(* with a 400. (Until docker version is run the engine's state is no part of *)
(* the request's state: it may be unreachable in every behaviour.)           *)
C12_EngineCheckedBeforeValidator ==
    /\ ValidatorHasRun => Called("docker version")
    /\ (ValidatorHasRun /\ ~valResult.isValid /\ pc = "responded")
          => (response.status = 500 /\ response.details = DaemonError)

(* C12, amended: the validator runs first and docker version is called only  *)
(* for a file that passed it; a request whose file is invalid never reaches  *)
(* the engine check, whatever the engine's state, and is answered with the   *)
(* validation error (400), or with a 500 carrying the unlink error when the  *)
(* unlink of the invalid file throws.                                        *)
C12_ValidatorRunsBeforeEngineCheck ==
    /\ Called("docker version") => (ValidatorHasRun /\ valResult.isValid)
    /\ (ValidatorHasRun /\ ~valResult.isValid)
          => /\ ~Called("docker version")
             /\ NoEngineWork
             /\ thrown # DaemonError
             /\ pc = "responded"
                   => \/ /\ response.status = 400
                         /\ response.details = valResult.error
                      \/ /\ response.status = 500
                         /\ response.details = UnlinkError

\* not a tar archive: a 400 with the validator's message, the engine never asked
C12_Witness ==
    /\ pc = "responded"
    /\ file.staged
    /\ ~file.tarOk
    /\ response.status = 400
    /\ response.details = <<"File is not a valid tar archive">>
    /\ ~Called("docker version")

-----------------------------------------------------------------------------
ValidatorReturned == pc \in {"proc_version", "invalid_unlink"}

SizeInRange == file.sizeKiB > 0 /\ file.sizeKiB <= MaxTarKiB

(* C13: validateDockerTarFile never throws (the handler goes on with its     *)
(* result, never to its catch block) and its result is that of the first     *)
(* failing check: not a regular file, then size 0, then size above 5 GiB,    *)
(* then a failing tar listing, each with its own message and whatever the    *)
(* extension; otherwise the file is valid, with or without a .json entry in  *)
(* the listing. A path that is gone makes stat fail and is invalid as well.  *)
C13_ValidatorFirstFailingCheck ==
    pc # "validate" =>
        /\ ValidatorReturned
        /\ (pc = "proc_version") = valResult.isValid
        /\ ~fileExists
              => (~valResult.isValid /\ valResult.error[1] = "Validation failed: ")
        /\ (fileExists /\ ~file.isFile)
              => valResult = Invalid(<<"Uploaded file is not a valid file">>)
        /\ (fileExists /\ file.isFile /\ file.sizeKiB = 0)
              => valResult = Invalid(<<"Tar file is empty">>)
        /\ (fileExists /\ file.isFile /\ file.sizeKiB > MaxTarKiB)
              => valResult = Invalid(<<"Tar file is too large (max 5GB)">>)
        /\ (fileExists /\ file.isFile /\ SizeInRange /\ ~file.tarOk)
              => valResult = Invalid(<<"File is not a valid tar archive">>)
        /\ (fileExists /\ file.isFile /\ SizeInRange /\ file.tarOk)
              => valResult.isValid

\* a tar of exactly 5 GiB without any .json entry and without the .tar
\* extension passes
C13_Witness ==
    /\ pc = "proc_version"
    /\ valResult.isValid
    /\ file.sizeKiB = MaxTarKiB
    /\ ~file.hasJson
    /\ ~file.tarExt

-----------------------------------------------------------------------------
(* C14, as claimed: a request whose file failed validation makes no engine   *)
(* call (docker version, load, tag, push), unlinks the file at once, and is  *)
(* answered with a 400 carrying the validator's message.                     *)
C14_InvalidUploadAnswered400 ==
    (ValidatorHasRun /\ ~valResult.isValid)
        => /\ ~Called("docker version")
           /\ NoEngineWork
           /\ pc = "responded"
                 => /\ ops[1] = Op("unlink", "handler", <<"req.file.path">>, TRUE)
                    /\ response.status = 400
                    /\ response.error = <<"Invalid Docker tar file">>
                    /\ response.details = valResult.error

-----------------------------------------------------------------------------
ProbeCalls == {i \in 1..Len(ops) : ops[i].cmd = "curl"}

ProbeFailed == \E i \in ProbeCalls : ~ops[i].ok

\* the entries of a list of messages that begin with one of the given texts
Beginning(msgs, texts) == SelectSeq(msgs, LAMBDA m : m[1] \in texts)

ProbeTexts == {"Local registry at ", "Could not verify registry connectivity: "}

FailedImages == {k \in 1..Len(imageNames) : VariantFailed(k, "original")
                                               \/ VariantFailed(k, "latest")}

(* C15: the pusher probes the registry once, before any tag or push; when    *)
(* the pusher returns after a failed probe its result holds exactly one      *)
(* probe warning and no error but those of failed images, after a good probe *)
(* no probe warning; either way every image of the list was re-tagged.       *)
C15_ProbeIsAdvisory ==
    /\ Cardinality(ProbeCalls) <= 1
    /\ \A i \in 1..Len(ops) :
          (ops[i].by = "pusher" /\ ops[i].cmd # "curl")
              => \E j \in ProbeCalls : j < i
    /\ pc = "push_returned"
          => /\ Cardinality(ProbeCalls) = 1
             /\ Len(Beginning(pushResult.warnings, ProbeTexts))
                   = (IF ProbeFailed THEN 1 ELSE 0)
             /\ Beginning(pushResult.errors, {"Failed to push "}) = pushResult.errors
             /\ Len(pushResult.errors) = Cardinality(FailedImages)
             /\ \A k \in 1..Len(imageNames) : PusherTried(k, "original", "docker tag")

\* the probe found no registry, the image was pushed under both tags
C15_Witness ==
    /\ pc = "push_returned"
    /\ ProbeFailed
    /\ Len(imageNames) = 1
    /\ Len(pushResult.warnings) = 1
    /\ pushResult.errors = <<>>
    /\ pushResult.pushedImages[1].status = "success"
    /\ pushResult.pushedImages[2].status = "success"

-----------------------------------------------------------------------------
(* C16: processDockerTarFile throws only when the engine check fails: once   *)
(* the check has passed the request never reaches a catch block and is       *)
(* answered, if at all, with a 200 whose result carries every failure: a     *)
(* failed load as an error, each failed image as an error and two failed     *)
(* outcomes, a failed unlink of the tar as a warning.                        *)
C16_ProcThrowsOnlyWhenEngineDown ==
    /\ pc = "proc_thrown" => (EngineCheckFailed /\ thrown = DaemonError)
    /\ EngineCheckPassed
          => /\ pc \notin {"proc_thrown", "handler_catch"}
             /\ response.status \in {0, 200}
    /\ (EngineCheckPassed /\ pc \in {"proc_returned", "responded"})
          => /\ pc = "responded" => (response.status = 200 /\ response.dockerResult = results)
             /\ LoadFailed => Len(Beginning(results.errors,
                                             {"Failed to load images from tar: "})) = 1
             /\ Len(Beginning(results.errors, {"Failed to push "}))
                   = Cardinality(FailedImages)
             /\ \A k \in FailedImages :
                   /\ results.pushedImages[2 * k - 1].status = "failed"
                   /\ results.pushedImages[2 * k].status = "failed"
             /\ UnlinkFailed => Includes(results.warnings, CleanupWarning)

\* an image could not be pushed and the tar could not be unlinked: still a 200
C16_Witness ==
    /\ pc = "responded"
    /\ EngineCheckPassed
    /\ FailedImages # {}
    /\ UnlinkFailed
    /\ fileExists
    /\ response.status = 200
    /\ Len(response.dockerResult.errors) > 0
    /\ Includes(response.dockerResult.warnings, CleanupWarning)

-----------------------------------------------------------------------------
\* the scenario of C17: the load printed the one image myapp:1.2.0, the probe
\* found the registry, every tag and push went through, a response was sent
HealthyRun ==
    /\ pc = "responded"
    /\ LoadSucceeded
    /\ LoadedImages(OutputOf("docker load")) = <<ImgApp>>
    /\ ProbeCalls # {}
    /\ ~ProbeFailed
    /\ \A i \in 1..Len(ops) :
          (ops[i].by = "pusher" /\ ops[i].cmd \in {"docker tag", "docker push"})
              => ops[i].ok

\* no call that exited with 0 spoke of an error on its stderr
QuietStderr == \A i \in 1..Len(ops) : ~ops[i].alarm

MyappOutcomes ==
    << [originalName |-> <<"myapp", ":", "1.2.0">>,
        localName |-> <<"100.103.254.213", ":", "5001", "/", "myapp", ":", "1.2.0">>,
        registryUrl |-> <<"100.103.254.213", ":", "5001">>,
        tag |-> <<"1.2.0">>, status |-> "success", type |-> "original"],
       [originalName |-> <<"myapp", ":", "1.2.0">>,
        localName |-> <<"100.103.254.213", ":", "5001", "/", "myapp", ":", "latest">>,
        registryUrl |-> <<"100.103.254.213", ":", "5001">>,
        tag |-> <<"latest">>, status |-> "success", type |-> "latest"] >>

-----------------------------------------------------------------------------
IsPrefix(a, b) == Len(a) <= Len(b) /\ SubSeq(b, 1, Len(a)) = a

\* the warnings processDockerTarFile adds of its own
OrchestratorWarnings ==
    (IF loadResult.images = <<>> THEN <<NoImagesWarning>> ELSE <<>>)
        \o (IF UnlinkFailed THEN <<CleanupWarning>> ELSE <<>>)

ListsAreConcatenations ==
    (EngineCheckPassed /\ pc \in {"proc_returned", "responded"})
        => /\ results.errors = loadResult.errors \o pushResult.errors
           /\ results.warnings
                 = loadResult.warnings \o pushResult.warnings \o OrchestratorWarnings

ListsOnlyGrow ==
    /\ IsPrefix(results.errors, results.errors')
    /\ IsPrefix(results.warnings, results.warnings')

(* C18: no step of a run removes or moves an entry of the result's errors or *)
(* warnings (each list is a prefix of what it is after the step), and when   *)
(* processDockerTarFile returns, errors is the loader's errors followed by   *)
(* the pusher's, and warnings is the loader's warnings followed by the       *)
(* pusher's followed by the orchestrator's own, equal entries included.      *)
C18_ErrorsAndWarningsAppendOnly ==
    []ListsAreConcatenations /\ [][ListsOnlyGrow]_vars

\* warnings of the loader, of the pusher and of the orchestrator, and the same
\* error twice for an image that was listed twice
C18_Witness ==
    /\ pc = "responded"
    /\ response.status = 200
    /\ loadResult.warnings # <<>>
    /\ pushResult.warnings # <<>>
    /\ UnlinkFailed
    /\ Len(results.warnings) = Len(loadResult.warnings) + Len(pushResult.warnings) + 1
    /\ Len(results.errors) = 2
    /\ results.errors[1] = results.errors[2]

-----------------------------------------------------------------------------
Hung == pc \in {HungAt[p] : p \in DOMAIN HungAt}

\* waiting for an engine call that C19 names: inspect, tag or rmi (load and
\* push never come to this: their timeout ends the wait)
HungInNamedEngineCall ==
    pc \in {"hung_docker_inspect", "hung_docker_tag", "hung_docker_rmi"}

(* C19, as claimed: every request that staged a file is answered in the end  *)
(* even if a load, inspect, tag, push or rmi subprocess never exits, each    *)
(* being cut off by a timeout and counted as failed; at most a call that is  *)
(* none of these (tar, docker version, docker images, curl) can keep the     *)
(* request waiting for good.                                                 *)
C19_EveryRequestAnswered ==
    file.staged ~> (response.status # 0 \/ (Hung /\ ~HungInNamedEngineCall))

-----------------------------------------------------------------------------
InProgress(r) == runs[r].phase \in {"staged", "loaded"}

(* C20, as claimed: two uploads in progress at the same time never have the  *)
(* same staged path, whatever their original names and arrival times, and no *)
(* upload loads or unlinks a file that another upload wrote.                 *)
C20_StagedFileExclusivelyOwned ==
    /\ \A r1, r2 \in Uploads :
          (r1 # r2 /\ InProgress(r1) /\ InProgress(r2)) => runs[r1].path # runs[r2].path
    /\ \A r \in Uploads :
          /\ runs[r].loaded \in {0, r}
          /\ runs[r].unlinked \in {0, r}

-----------------------------------------------------------------------------
ScriptRunning(c) == calls[c].phase = "script"

\* this step is a call of buildAndPushImages by c
CallBy(c) == ~Accepted(c) /\ calls'[c] # calls[c]

RejectedWithoutScript(c) ==
    /\ calls[c].phase = "rejected"
    /\ ~calls[c].spawned
    /\ calls[c].error = <<"Build process is already in progress">>

(* C21: at most one call of buildAndPushImages is in progress and at most    *)
(* one build script runs at any time; every call made while another is in   *)
(* progress throws 'Build process is already in progress' and has spawned no *)
(* script, and changes nothing for the call in progress.                     *)
C21_NoConcurrentBuilds ==
    /\ [](/\ Cardinality({c \in Callers : Accepted(c)}) <= 1
          /\ Cardinality({c \in Callers : ScriptRunning(c)}) <= 1
          /\ \A c \in Callers : calls[c].phase = "rejected" => RejectedWithoutScript(c))
    /\ [][\A c, d \in Callers :
              (c # d /\ Accepted(d) /\ CallBy(c))
                  => /\ calls'[c].phase = "rejected"
                     /\ ~calls'[c].spawned
                     /\ calls'[d] = calls[d]]_vars

\* one script running, the two other callers turned away
C21_Witness ==
    /\ ScriptRunning(1)
    /\ RejectedWithoutScript(2)
    /\ RejectedWithoutScript(3)
    /\ buildInProgress

-----------------------------------------------------------------------------
\* the builder ran a step of the service, with this result
BuilderRan(service, ok) ==
    \E i \in 1..Len(blog) : blog[i].service = service /\ blog[i].ok = ok

BuilderTried(service) == \E i \in 1..Len(blog) : blog[i].service = service

\* how many entries of the list are about the service
EntriesFor(list, service) ==
    Cardinality({i \in 1..Len(list) : list[i].service = service})

BuildAllDone == bpc \in {"returned", "responded"} /\ caller # "none" /\ versions.given

(* C22: build failures are contained.  Once buildAndPushAll is through, it  *)
(* has returned a value (it never throws); a failed buco step has not kept   *)
(* a requested subco build from being attempted; each requested service is   *)
(* in exactly one of results and errors and no other service is in either;   *)
(* success is true iff results is non-empty.  The /api/upload handler has    *)
(* published to /newUpdate and answered 200 with the build result whenever   *)
(* buildAndPushAll returned, a failed build included.                        *)
C22_BuildFailuresContained ==
    /\ (bpc \in {"returned", "responded"} /\ (caller = "script" \/ uresponse.status # 400))
          => buildReturn.returned
    /\ buildReturn.returned
          => /\ buildReturn.success <=> Len(buildReturn.results) > 0
             /\ versions.given =>
                  \A service \in {"buco", "subco"} :
                     /\ EntriesFor(buildReturn.results, service)
                          + EntriesFor(buildReturn.errors, service)
                            = IF Wanted(versions, service) THEN 1 ELSE 0
                     /\ EntriesFor(buildReturn.results, service) = 1
                           => ~BuilderRan(service, FALSE)
                     /\ EntriesFor(buildReturn.errors, service) = 1
                           => BuilderRan(service, FALSE)
             /\ (BuilderRan("buco", FALSE) /\ Wanted(versions, "subco"))
                   => BuilderTried("subco")
             /\ ~versions.given
                   => /\ ~buildReturn.success
                      /\ Len(buildReturn.errors) = 1
                      /\ buildReturn.errors[1].service = "unknown"
    /\ (caller = "handler" /\ bpc = "responded" /\ uresponse.status # 400)
          => /\ uresponse.status = 200
             /\ uresponse.dockerResult = buildReturn
             /\ published = <<"/newUpdate">>

\* both builds failed, and the upload was still published and answered 200
C22_Witness ==
    /\ caller = "handler"
    /\ bpc = "responded"
    /\ uresponse.status = 200
    /\ ~uresponse.dockerResult.success
    /\ BuilderRan("buco", FALSE)
    /\ BuilderRan("subco", FALSE)
    /\ Len(buildReturn.errors) = 2
    /\ published = <<"/newUpdate">>

-----------------------------------------------------------------------------
\* image references by their parts, [registry/][path/]repository[:tag]; an
\* empty part is an absent one
RefForms ==
    [registry : {<<>>, <<"reg.local", ":", "5000">>},
     path : {<<>>, <<"team">>},
     repository : {<<"myapp">>, <<"web">>},
     tag : {<<>>, <<"1.2.0">>}]

WithSlash(part) == IF part = <<>> THEN <<>> ELSE part \o <<"/">>

\* the reference as it is written
ReferenceOf(p) ==
    WithSlash(p.registry) \o WithSlash(p.path) \o p.repository
        \o (IF p.tag = <<>> THEN <<>> ELSE <<":">> \o p.tag)

FormOf(name) == CHOOSE p \in RefForms : ReferenceOf(p) = name

TagOrLatest(p) == IF p.tag = <<>> THEN <<"latest">> ELSE p.tag

\* the outcomes recorded so far, in the pusher and in the orchestrator
RecordedOutcomes ==
    {pushRes.pushedImages[i] : i \in 1..Len(pushRes.pushedImages)}
        \cup {results.pushedImages[i] : i \in 1..Len(results.pushedImages)}

(* C23: for every reference [registry/]repository[:tag] the pusher takes the *)
(* last '/'-separated segment before the tag as the repository and the part  *)
(* after ':' as the tag, 'latest' when there is none; every recorded         *)
(* outcome, successful or failed, of type 'original' carries localName =     *)
(* registry/repository:tag and that tag, every one of type 'latest' carries  *)
(* localName = registry/repository:latest and tag 'latest'.                  *)
C23_NamesDerivedFromReference ==
    /\ \A p \in RefForms :
          /\ RepoName(ReferenceOf(p)) = p.repository
          /\ OriginalTag(ReferenceOf(p)) = TagOrLatest(p)
    /\ \A o \in RecordedOutcomes :
          LET p == FormOf(o.originalName)
          IN  /\ ReferenceOf(p) = o.originalName
              /\ o.status \in {"success", "failed"}
              /\ o.type \in {"original", "latest"}
              /\ o.type = "original"
                    => /\ o.localName = Registry \o <<"/">> \o p.repository
                                            \o <<":">> \o TagOrLatest(p)
                       /\ o.tag = TagOrLatest(p)
              /\ o.type = "latest"
                    => /\ o.localName = Registry \o <<"/">> \o p.repository
                                            \o <<":", "latest">>
                       /\ o.tag = <<"latest">>

\* a reference with a registry and no tag failed, one without registry and
\* with a tag was pushed
C23_Witness ==
    /\ pc = "push_returned"
    /\ imageNames = <<ImgWeb, ImgApp>>
    /\ Len(pushResult.pushedImages) = 4
    /\ pushResult.pushedImages[1].status = "failed"
    /\ pushResult.pushedImages[2].status = "failed"
    /\ pushResult.pushedImages[3].status = "success"
    /\ pushResult.pushedImages[4].status = "success"

-----------------------------------------------------------------------------
\* the inspections of strategy 2 that gave no repository:tag reference
NamelessInspections ==
    {i \in 1..Len(ops) : /\ ops[i].cmd = "docker inspect"
                         /\ ops[i].by = "loader"
                         /\ (~ops[i].ok \/ InspectTags(ops[i].out) = <<>>)}

NameUnknownWarning(id) ==
    <<"Loaded image with ID ">> \o id \o <<" but couldn't determine name">>

(* C24, as claimed: for each 'Loaded image ID: <id>' whose inspection yields *)
(* no repository:tag reference, whether the inspection fails or returns an   *)
(* empty tag list, the load result holds the warning that an image was       *)
(* loaded but its name could not be determined.                              *)
C24_NamelessImageWarned ==
    \A i \in NamelessInspections :
        Includes(loadRes.warnings, NameUnknownWarning(ops[i].target))

-----------------------------------------------------------------------------
ListingCalls == {i \in 1..Len(ops) : ops[i].cmd = "docker images"}

ListingFailed == \E i \in ListingCalls : ~ops[i].ok

\* strategy 3 is the one that supplies the names of the result
Strategy3Supplies ==
    /\ pc = "load_returned"
    /\ \E i \in ListingCalls : ops[i].ok /\ RecentImages(ops[i].out) # <<>>

(* C25: when strategy 3 supplies the result, images holds the first names of *)
(* the listing, at most 5 of them, and warnings holds the notice that        *)
(* recently available images are used; when the listing fails the loader     *)
(* still returns, with no image and the warning 'Could not determine loaded  *)
(* images'.                                                                  *)
C25_RecentImagesCappedAndWarned ==
    /\ Strategy3Supplies
          => /\ Len(loadResult.images) <= 5
             /\ Len(loadResult.images) >= 1
             /\ IsPrefix(loadResult.images, RecentImages(OutputOf("docker images")))
             /\ Len(RecentImages(OutputOf("docker images"))) >= 5
                   => Len(loadResult.images) = 5
             /\ Includes(loadResult.warnings, RecentWarning)
    /\ ListingFailed
          => /\ pc = "load_returned"
             /\ thrown = NoError
             /\ loadResult.images = <<>>
             /\ Includes(loadResult.warnings, <<"Could not determine loaded images">>)
             /\ ~Includes(loadResult.warnings, RecentWarning)

\* the listing printed six images and the loader took five
C25_Witness ==
    /\ Strategy3Supplies
    /\ Len(RecentImages(OutputOf("docker images"))) = 6
    /\ Len(loadResult.images) = 5
    /\ Includes(loadResult.warnings, RecentWarning)

-----------------------------------------------------------------------------
\* this step is a `docker rmi` that failed
RmiFailsNow ==
    /\ Len(ops') = Len(ops) + 1
    /\ ops'[Len(ops')].cmd = "docker rmi"
    /\ ~ops'[Len(ops')].ok

RmiFailed(k) ==
    PusherRan(k, "original", "docker rmi", FALSE)
        \/ PusherRan(k, "latest", "docker rmi", FALSE)

(* C26: a failed `docker rmi` is logged only.  The step in which it fails    *)
(* leaves errors, warnings and every recorded outcome of the pusher and of   *)
(* the orchestrator as they were, and goes on to the next removal or to the  *)
(* next image (or to the return after the last one); when the pusher         *)
(* returns, every image of the list has been re-tagged, and an image whose   *)
(* tags and pushes went through has its two outcomes 'success' whatever its  *)
(* removals did.                                                             *)
C26_RmiFailureOnlyLogged ==
    /\ [][RmiFailsNow
            => /\ pushRes' = pushRes
               /\ results' = results
               /\ thrown' = thrown
               /\ pc = "push_rmi_original"
                     => (pc' = "push_rmi_latest" /\ idx' = idx)
               /\ pc = "push_rmi_latest"
                     => /\ idx' = idx + 1
                        /\ pc' = IF idx < Len(imageNames) THEN "push_tag_original"
                                                          ELSE "push_returned"
                        /\ idx = Len(imageNames) => pushResult' = pushRes]_vars
    /\ [](pc = "push_returned"
            => \A k \in 1..Len(imageNames) :
                  /\ PusherTried(k, "original", "docker tag")
                  /\ (RmiFailed(k) /\ ~VariantFailed(k, "original")
                                   /\ ~VariantFailed(k, "latest"))
                        => /\ pushResult.pushedImages[2 * k - 1].status = "success"
                           /\ pushResult.pushedImages[2 * k].status = "success")

\* both removals of the first image failed; nothing of it is in the result
\* and the second image was pushed
C26_Witness ==
    /\ pc = "push_returned"
    /\ Len(imageNames) = 2
    /\ PusherRan(1, "original", "docker rmi", FALSE)
    /\ PusherRan(1, "latest", "docker rmi", FALSE)
    /\ PusherRan(2, "latest", "docker push", TRUE)
    /\ pushResult.errors = <<>>
    /\ pushResult.warnings = <<>>
    /\ \A i \in 1..4 : pushResult.pushedImages[i].status = "success"

-----------------------------------------------------------------------------
\* the images the pusher is through with
ImagesDone == {k \in 1..Len(imageNames) : k < idx}

(* C27, as claimed: for every image the pusher is through with, whether its  *)
(* pushes succeeded or failed, a removal was attempted of each local         *)
(* reference that was created for it; after the pusher returns no reference  *)
(* it created is left without a removal attempt.                             *)
C27_EveryCreatedTagRemovalAttempted ==
    \A k \in ImagesDone :
        \A variant \in {"original", "latest"} :
            PusherRan(k, variant, "docker tag", TRUE)
                => PusherTried(k, variant, "docker rmi")

-----------------------------------------------------------------------------
\* loadDockerImagesFromTar has returned loadResult
LoaderReturned == pc = "load_returned" \/ loadResult # EmptyLoad

(* C28: in every result returned by loadDockerImagesFromTar, errors is empty *)
(* if and only if images is not; when images is empty, errors has exactly    *)
(* one entry.                                                                *)
C28_LoadErrorsIffNoImages ==
    LoaderReturned
        => /\ loadResult.errors = <<>> <=> loadResult.images # <<>>
           /\ loadResult.images = <<>> => Len(loadResult.errors) = 1

\* all three strategies came back empty-handed: warnings, and the one error
C28_Witness ==
    /\ pc = "load_returned"
    /\ Called("docker inspect")
    /\ Called("docker images")
    /\ loadResult.images = <<>>
    /\ loadResult.errors = <<NoImagesError>>
    /\ Len(loadResult.warnings) >= 2

-----------------------------------------------------------------------------
\* the run has re-tagged the variant's reference and has yet to push it
BetweenTagAndPush(r, variant) ==
    pushers[r].at = IF variant = "original" THEN "push_original" ELSE "push_latest"

(* C29, as claimed: with two runs at work on images of one repository, the   *)
(* reference a run has re-tagged and has yet to push is never removed by the *)
(* other run in between, and neither of two otherwise successful runs        *)
(* records a failed outcome.                                                 *)
C29_ConcurrentRunsDoNotInterfere ==
    \A r \in Racers :
        /\ \A variant \in {"original", "latest"} :
              BetweenTagAndPush(r, variant)
                  => LocalNameOf(pushers[r].image, variant) \in localRefs
        /\ \A i \in 1..Len(pushers[r].pushedImages) :
              pushers[r].pushedImages[i].status = "success"
        /\ pushers[r].errors = <<>>

-----------------------------------------------------------------------------
\* this step is the end of the accepted call of c
CallEnds(c) == calls[c].phase = "settled" /\ calls'[c].phase \in {"returned", "threw"}

(* C30: buildInProgress is true exactly while an accepted call of            *)
(* buildAndPushImages is running.  The step that ends the call resets it,    *)
(* whether the script exited with 0, exited with another code or could not   *)
(* be started; a call made while it is set is rejected and leaves it set; a  *)
(* call made while it is not set is never rejected, so that once the running *)
(* script has exited and its call has ended a new build is accepted.         *)
C30_FlagTracksAcceptedCall ==
    /\ [](isBuildInProgress <=> \E c \in Callers : Accepted(c))
    /\ [][\A c \in Callers : CallEnds(c) => ~buildInProgress']_vars
    /\ [][\A c \in Callers :
              (CallBy(c) /\ buildInProgress)
                  => (buildInProgress' /\ calls'[c].phase = "rejected")]_vars
    /\ [][\A c \in Callers :
              (CallBy(c) /\ ~buildInProgress)
                  => /\ calls'[c].phase \in {"path_check", "script", "threw"}
                     /\ buildInProgress' <=> calls'[c].phase # "threw"]_vars

\* the script of caller 1 could not be started and caller 3 was turned away
\* meanwhile; caller 2, calling afterwards, has its script running
C30_Witness ==
    /\ calls[1].phase = "threw"
    /\ calls[1].outcome = "error"
    /\ calls[3].phase = "rejected"
    /\ ScriptRunning(2)
    /\ isBuildInProgress

=============================================================================
